---- MODULE Spec2Model ----
(***************************************************************************)
(* Model of the web-goo mesh physics library (src/mesh.js) and of its      *)
(* driver (src/goo.js).                                                    *)
(*                                                                         *)
(* Numbers.  The program computes with IEEE doubles.  The model carries    *)
(* every length on an integer grid of Sub grid units per world unit, and   *)
(* every dimensionless factor (damping, stiffness, restitution, friction,  *)
(* rest multiplier) in thousandths.  Each arithmetic result that leaves    *)
(* the grid is rounded to the nearest grid unit, where the program rounds  *)
(* to the nearest double.  Comparisons of squared distances and the signs  *)
(* of the intersection parameters are exact on the grid.                   *)
(*                                                                         *)
(* Objects.  A Node object is identified by the number `id` it got when it *)
(* was allocated; links and angle constraints hold ids, as the program's   *)
(* links hold references.  NoNode is the null reference.                   *)
(***************************************************************************)
EXTENDS Integers, Sequences, FiniteSets, TLC

VARIABLES mesh, nodes, links, angleConstraints,
          mouse, isDeleteMode, hoveredNode,
          nextId, ticks, lastOp, phaseLog

vars == <<mesh, nodes, links, angleConstraints, mouse, isDeleteMode,
          hoveredNode, nextId, ticks, lastOp, phaseLog>>

-----------------------------------------------------------------------------
(* Bounds of the model *)

Sub == 12
\* the driver: node objects ever allocated, ticks
MaxIds == 5
MaxTicks == 1
\* the library used directly: node objects ever allocated, links, constraints
MaxMeshIds == 3
MaxLinks == 4
MaxAngles == 1
\* the simulation: nodes, links, step calls
MaxSimNodes == 4
MaxSimLinks == 2
MaxSteps == 2
\* the crossing queries: nodes, links
MaxQueryNodes == 4
MaxQueryLinks == 2
\* one node against the walls: calls of _applyWallBounds
MaxWallCalls == 1
\* the nearest-node query: nodes in the mesh, and the largest count asked for
MaxNearestNodes == 3
MaxNearestCount == 4
\* one link: calls of step() and satisfy()
MaxLinkCalls == 2
\* one angle constraint: calls of step() and satisfy()
MaxAngleCalls == 2
\* the configured mesh: links created
MaxConfigLinks == 1
\* nodes at the same place: calls of step() and _pushNodeFromPoint()
MaxCoincidentCalls == 2
\* the crossing-prevention pass: links in the mesh, and calls of the pass
MaxCrossLinks == 3
MaxCrossCalls == 1
\* removeNode call by call: links, and calls on the stack
MaxRemoveLinks == 3
MaxRemoveDepth == 6
\* the driver in a fixed window: ticks
MaxLongTicks == 2
\* the dropped triangle: step calls
MaxScenarioSteps == 120

-----------------------------------------------------------------------------
(* Arithmetic on the grid *)

Abs(n) == IF n < 0 THEN 0 - n ELSE n

Min(a, b) == IF a <= b THEN a ELSE b

\* n / d rounded to the nearest integer, halves away from zero
RoundDiv(n, d) ==
  LET s == IF (n < 0) # (d < 0) THEN 0 - 1 ELSE 1
      an == Abs(n)
      ad == Abs(d)
  IN s * ((2 * an + ad) \div (2 * ad))

\* v * f for a factor f given in thousandths
Scale(v, f) == RoundDiv(v * f, 1000)

RECURSIVE SqrtSearch(_, _)
\* floor of the square root of n by Newton's iteration, from x >= sqrt(n) > 0
SqrtSearch(n, x) ==
  IF (x + n \div x) \div 2 >= x THEN x
  ELSE SqrtSearch(n, (x + n \div x) \div 2)

\* floor of the square root of dx^2 + dy^2 scaled by k
Isqrt(k, dx, dy) ==
  IF dx = 0 /\ dy = 0 THEN 0
  ELSE SqrtSearch(k * k * (dx * dx + dy * dy), k * (Abs(dx) + Abs(dy)))

\* what a coordinate holds after a division by zero, NaN or an infinity: a
\* value no computation on the grid arrives at
NotFinite == 0 - 2 ^ 30

\* Math.hypot(dx, dy), to the nearest grid unit; 0 only when dx = dy = 0
Hypot(dx, dy) ==
  LET h == (Isqrt(2, dx, dy) + 1) \div 2
  IN IF (dx # 0 \/ dy # 0) /\ h = 0 THEN 1 ELSE h

\* `v || d` on an optional number: {} is undefined, {v} a supplied value
OrDefault(opt, d) ==
  IF opt = {} \/ opt = {0} THEN d ELSE CHOOSE v \in opt : TRUE

NoNode == 0

ForeignNode == NoNode - 1

-----------------------------------------------------------------------------
(* Program constants *)

DefaultGravityY == 175
DefaultDamping == 995
DefaultSolverIterations == 6
DefaultStiffness == 250
DefaultWallRestitution == 250
DefaultGroundRestitution == 180
DefaultFriction == 850
DefaultWidth == 800
DefaultHeight == 600
GroundMargin == 90
DefaultNodeRadius == 8
DefaultNodeMass == 15
DefaultRestMultiplier == 950
DefaultAngleStiffness == 800
PushStrength == 300
TriangleAngleStiffness == 300
TriangleSize == 70

WIDTH == 200
HEIGHT == 300
GROUND_Y == HEIGHT - 90
CURSOR_R == 10

-----------------------------------------------------------------------------
(* Mesh constructor *)

NoConfig ==
  [gravity |-> {}, damping |-> {}, solverIterations |-> {}, stiffness |-> {},
   wallRestitution |-> {}, groundRestitution |-> {}, friction |-> {},
   bounds |-> {}, groundY |-> {}, defaultNodeRadius |-> {},
   defaultNodeMass |-> {}]

MeshNew(config) ==
  LET bounds == IF config.bounds = {}
                THEN [width |-> DefaultWidth * Sub, height |-> DefaultHeight * Sub]
                ELSE CHOOSE b \in config.bounds : TRUE
  IN [gravity |-> IF config.gravity = {}
                  THEN [x |-> 0, y |-> DefaultGravityY * Sub]
                  ELSE CHOOSE g \in config.gravity : TRUE,
      damping |-> OrDefault(config.damping, DefaultDamping),
      solverIterations |-> OrDefault(config.solverIterations, DefaultSolverIterations),
      stiffness |-> OrDefault(config.stiffness, DefaultStiffness),
      wallRestitution |-> OrDefault(config.wallRestitution, DefaultWallRestitution),
      groundRestitution |-> OrDefault(config.groundRestitution, DefaultGroundRestitution),
      friction |-> OrDefault(config.friction, DefaultFriction),
      bounds |-> bounds,
      groundY |-> OrDefault(config.groundY, bounds.height - GroundMargin * Sub),
      defaultNodeRadius |-> OrDefault(config.defaultNodeRadius, DefaultNodeRadius * Sub),
      defaultNodeMass |-> OrDefault(config.defaultNodeMass, DefaultNodeMass)]

\* the configuration goo.js passes
GooConfig ==
  [gravity |-> {[x |-> 0, y |-> 175 * Sub]}, damping |-> {995},
   solverIterations |-> {6}, stiffness |-> {250}, wallRestitution |-> {250},
   groundRestitution |-> {180}, friction |-> {850},
   bounds |-> {[width |-> WIDTH * Sub, height |-> HEIGHT * Sub]},
   groundY |-> {GROUND_Y * Sub}, defaultNodeRadius |-> {8 * Sub},
   defaultNodeMass |-> {15}]

-----------------------------------------------------------------------------
(* Node, Link, AngleConstraint constructors *)

NodeNew(id, x, y, r, mass, pinned) ==
  [id |-> id, x |-> x, y |-> y, px |-> x, py |-> y, ax |-> 0, ay |-> 0,
   r |-> r, mass |-> mass, pinned |-> pinned]

NoOptions == [radius |-> {}, mass |-> {}, pinned |-> FALSE, initialVelocity |-> {}]

NodeIds(ns) == {ns[i].id : i \in DOMAIN ns}

\* index of the node object in the array, 0 when absent (indexOf = -1)
IndexOf(ns, id) ==
  IF id \in NodeIds(ns)
  THEN CHOOSE i \in DOMAIN ns : ns[i].id = id /\ \A j \in 1..(i - 1) : ns[j].id # id
  ELSE 0

\* the object a reference points to; an object outside the array keeps
\* whatever coordinates it had, the model gives it the origin
Deref(ns, id) ==
  IF IndexOf(ns, id) # 0 THEN ns[IndexOf(ns, id)]
  ELSE NodeNew(id, 0, 0, 0, 1, FALSE)

LinkNew(ns, a, b, stiffness, restMultiplier) ==
  LET na == Deref(ns, a)
      nb == Deref(ns, b)
  IN [a |-> a, b |-> b,
      rest |-> Scale(Hypot(nb.x - na.x, nb.y - na.y), restMultiplier),
      stiffness |-> stiffness]

AngleConstraintNew(ns, a, b, c, stiffness) ==
  LET na == Deref(ns, a)
      nc == Deref(ns, c)
  IN [a |-> a, b |-> b, c |-> c, stiffness |-> stiffness,
      restDistance |-> Hypot(nc.x - na.x, nc.y - na.y)]

-----------------------------------------------------------------------------
(* Mesh: node and link management, as functions of the three collections *)

Structure(ns, ls, acs) == [nodes |-> ns, links |-> ls, angleConstraints |-> acs]

createNode(m, st, id, x, y, options) ==
  LET node == NodeNew(id, x, y,
                      OrDefault(options.radius, m.defaultNodeRadius),
                      OrDefault(options.mass, m.defaultNodeMass),
                      options.pinned)
      v == IF options.initialVelocity = {} THEN [x |-> 0, y |-> 0]
           ELSE CHOOSE w \in options.initialVelocity : TRUE
      placed == IF options.initialVelocity = {} THEN node
                ELSE [node EXCEPT !.px = x - v.x, !.py = y - v.y]
  IN [st EXCEPT !.nodes = Append(st.nodes, placed)]

createLink(m, st, a, b, options) ==
  [st EXCEPT !.links =
     Append(st.links,
            LinkNew(st.nodes, a, b,
                    OrDefault(options.stiffness, m.stiffness),
                    OrDefault(options.restMultiplier, DefaultRestMultiplier)))]

createAngleConstraint(st, a, b, c, stiffness) ==
  [st EXCEPT !.angleConstraints =
     Append(st.angleConstraints, AngleConstraintNew(st.nodes, a, b, c, stiffness))]

\* the first loop of removeNode without its else-if branch: only the
\* neighbours at the b end of the node's links are collected
ConnectedNodes_FromA(ls, id) ==
  LET F[i \in 0..Len(ls)] ==
        IF i = 0 THEN <<>>
        ELSE IF ls[i].a = id THEN Append(F[i - 1], ls[i].b)
        ELSE F[i - 1]
  IN F[Len(ls)]

\* the neighbours collected by the first loop of removeNode, in link order
ConnectedNodes(ls, id) ==
  LET F[i \in 0..Len(ls)] ==
        IF i = 0 THEN <<>>
        ELSE IF ls[i].a = id THEN Append(F[i - 1], ls[i].b)
        ELSE IF ls[i].b = id THEN Append(F[i - 1], ls[i].a)
        ELSE F[i - 1]
  IN F[Len(ls)]

ConnectionCount(ls, id) ==
  Len(SelectSeq(ls, LAMBDA l : l.a = id \/ l.b = id))

\* nodes.splice(nodes.indexOf(node), 1) without the index test of line 70:
\* splice(-1, 1) takes the last element
Splice_Unchecked(ns, id) ==
  LET k == IndexOf(ns, id)
  IN IF k = 0 THEN SubSeq(ns, 1, Len(ns) - 1)
     ELSE SubSeq(ns, 1, k - 1) \o SubSeq(ns, k + 1, Len(ns))

\* nodes.splice(nodes.indexOf(node), 1), nothing when indexOf is -1
Splice(ns, id) ==
  LET k == IndexOf(ns, id)
  IN IF k = 0 THEN ns
     ELSE SubSeq(ns, 1, k - 1) \o SubSeq(ns, k + 1, Len(ns))

\* lines 59-73 of removeNode without the filter of lines 64-67: the angle
\* constraints of the node stay
Detach_KeepsConstraints(st, id) ==
  [st EXCEPT
     !.links = SelectSeq(st.links, LAMBDA l : l.a # id /\ l.b # id),
     !.nodes = Splice(st.nodes, id),
     !.calls = st.calls + 1]

\* lines 59-73 of removeNode: the links, constraints and node go
Detach(st, id) ==
  [st EXCEPT
     !.links = SelectSeq(st.links, LAMBDA l : l.a # id /\ l.b # id),
     !.angleConstraints =
        SelectSeq(st.angleConstraints,
                  LAMBDA c : c.a # id /\ c.b # id /\ c.c # id),
     !.nodes = Splice(st.nodes, id),
     !.calls = st.calls + 1]

RECURSIVE removeNode(_, _)
RECURSIVE Cascade(_, _, _)

\* a loop over the neighbours that removes none of them
Cascade_Skipped(st, connectedNodes, k) == st

\* lines 75-84 of removeNode: the loop over the collected neighbours
Cascade(st, connectedNodes, k) ==
  IF k > Len(connectedNodes) THEN st
  ELSE IF ConnectionCount(st.links, connectedNodes[k]) < 2
       THEN Cascade(removeNode(st, connectedNodes[k]), connectedNodes, k + 1)
       ELSE Cascade(st, connectedNodes, k + 1)

\* removeNode cut after line 73: no loop over the neighbours
removeNode_DetachOnly(st, id) == Detach(st, id)

removeNode(st, id) ==
  Cascade(Detach(st, id), ConnectedNodes(st.links, id), 1)

\* removeNode on the mesh's collections; calls counts the invocations
RemoveFrom(ns, ls, acs, id) ==
  removeNode([nodes |-> ns, links |-> ls, angleConstraints |-> acs, calls |-> 0], id)

-----------------------------------------------------------------------------
(* Mesh: structural queries *)

\* first node, in stored order, whose radius contains the point; NoNode if none
getNodeAt(ns, x, y) ==
  LET Hit(i) == (ns[i].x - x) * (ns[i].x - x) + (ns[i].y - y) * (ns[i].y - y)
                  <= ns[i].r * ns[i].r
  IN IF \E i \in DOMAIN ns : Hit(i)
     THEN ns[CHOOSE i \in DOMAIN ns : Hit(i) /\ \A j \in 1..(i - 1) : ~Hit(j)].id
     ELSE NoNode

DistanceSquared(n, x, y) == (n.x - x) * (n.x - x) + (n.y - y) * (n.y - y)

\* Array.prototype.sort with the comparator a.distanceSquared - b.distanceSquared:
\* a stable sort, each element goes behind the elements that are not farther
SortByDistance_TiesReversed(ns, x, y) ==
  LET Insert(s, e) ==
        LET k == Cardinality({i \in DOMAIN s :
                     DistanceSquared(s[i], x, y) < DistanceSquared(e, x, y)})
        IN SubSeq(s, 1, k) \o <<e>> \o SubSeq(s, k + 1, Len(s))
      F[i \in 0..Len(ns)] == IF i = 0 THEN <<>> ELSE Insert(F[i - 1], ns[i])
  IN F[Len(ns)]

SortByDistance(ns, x, y) ==
  LET Insert(s, e) ==
        LET k == Cardinality({i \in DOMAIN s :
                     DistanceSquared(s[i], x, y) <= DistanceSquared(e, x, y)})
        IN SubSeq(s, 1, k) \o <<e>> \o SubSeq(s, k + 1, Len(s))
      F[i \in 0..Len(ns)] == IF i = 0 THEN <<>> ELSE Insert(F[i - 1], ns[i])
  IN F[Len(ns)]

\* the ids of the `count` nearest nodes
getNearestNodes(ns, x, y, count) ==
  LET Ids(sorted) ==
        LET F[i \in 0..Min(count, Len(sorted))] ==
              IF i = 0 THEN <<>> ELSE Append(F[i - 1], sorted[i].id)
        IN F[Min(count, Len(sorted))]
  IN Ids(SortByDistance(ns, x, y))

\* the segment test with the range test on t only: the second segment is
\* taken as its whole line
lineIntersection_Unbounded(p1x, p1y, p2x, p2y, p3x, p3y, p4x, p4y) ==
  LET denom == (p1x - p2x) * (p3y - p4y) - (p1y - p2y) * (p3x - p4x)
      tn == (p1x - p3x) * (p3y - p4y) - (p1y - p3y) * (p3x - p4x)
      InUnit(n) == IF denom > 0 THEN 0 <= n /\ n <= denom
                   ELSE denom <= n /\ n <= 0
      q1 == (Abs(tn) * 64) \div Abs(denom)
      r1 == Abs(tn) * 64 - q1 * Abs(denom)
      t4096 == q1 * 64 + RoundDiv(r1 * 64, Abs(denom))
  IN IF denom = 0 THEN [hit |-> FALSE, x |-> 0, y |-> 0]
     ELSE IF InUnit(tn)
          THEN [hit |-> TRUE,
                x |-> p1x + RoundDiv(t4096 * (p2x - p1x), 4096),
                y |-> p1y + RoundDiv(t4096 * (p2y - p1y), 4096)]
          ELSE [hit |-> FALSE, x |-> 0, y |-> 0]

\* the parametric segment test; hit is FALSE where the program returns null
lineIntersection(p1x, p1y, p2x, p2y, p3x, p3y, p4x, p4y) ==
  LET denom == (p1x - p2x) * (p3y - p4y) - (p1y - p2y) * (p3x - p4x)
      tn == (p1x - p3x) * (p3y - p4y) - (p1y - p3y) * (p3x - p4x)
      un == 0 - ((p1x - p2x) * (p1y - p3y) - (p1y - p2y) * (p1x - p3x))
      \* 0 <= n/denom <= 1
      InUnit(n) == IF denom > 0 THEN 0 <= n /\ n <= denom
                   ELSE denom <= n /\ n <= 0
      \* t = tn / denom in 4096ths, in two stages of 64 to stay in range
      q1 == (Abs(tn) * 64) \div Abs(denom)
      r1 == Abs(tn) * 64 - q1 * Abs(denom)
      t4096 == q1 * 64 + RoundDiv(r1 * 64, Abs(denom))
  IN IF denom = 0 THEN [hit |-> FALSE, x |-> 0, y |-> 0]
     ELSE IF InUnit(tn) /\ InUnit(un)
          THEN [hit |-> TRUE,
                x |-> p1x + RoundDiv(t4096 * (p2x - p1x), 4096),
                y |-> p1y + RoundDiv(t4096 * (p2y - p1y), 4096)]
          ELSE [hit |-> FALSE, x |-> 0, y |-> 0]

\* an endpoint of a proposed link: a node of the mesh (id) or a bare point
\* such as goo.js's tempCursor (id = NoNode)
EndPoint(id, x, y) == [id |-> id, x |-> x, y |-> y]

NodePoint(ns, id) == EndPoint(id, Deref(ns, id).x, Deref(ns, id).y)

\* the crossing query skipping only the links that touch fromNode
wouldLinkCross_SkipFromOnly(ns, ls, fromNode, toNode) ==
  \E i \in DOMAIN ls :
     /\ ~(fromNode.id # NoNode /\ (ls[i].a = fromNode.id \/ ls[i].b = fromNode.id))
     /\ lineIntersection(fromNode.x, fromNode.y, toNode.x, toNode.y,
                         Deref(ns, ls[i].a).x, Deref(ns, ls[i].a).y,
                         Deref(ns, ls[i].b).x, Deref(ns, ls[i].b).y).hit

\* lines 127-141; a link is skipped when one of its ends is the object
\* fromNode or the object toNode
wouldLinkCross(ns, ls, fromNode, toNode) ==
  \E i \in DOMAIN ls :
     /\ ~(\/ (fromNode.id # NoNode /\ (ls[i].a = fromNode.id \/ ls[i].b = fromNode.id))
          \/ (toNode.id # NoNode /\ (ls[i].a = toNode.id \/ ls[i].b = toNode.id)))
     /\ lineIntersection(fromNode.x, fromNode.y, toNode.x, toNode.y,
                         Deref(ns, ls[i].a).x, Deref(ns, ls[i].a).y,
                         Deref(ns, ls[i].b).x, Deref(ns, ls[i].b).y).hit

-----------------------------------------------------------------------------
(* Mesh: shape generation *)

createTriangle(m, st, id, centerX, centerY, size) ==
  LET vel == [NoOptions EXCEPT !.initialVelocity = {[x |-> 0, y |-> 2 * Sub]}]
      lk == [stiffness |-> {m.stiffness}, restMultiplier |-> {1000}]
      a == id
      b == id + 1
      c == id + 2
      s1 == createNode(m, st, a, centerX, centerY, vel)
      s2 == createNode(m, s1, b, centerX - Scale(size, 900), centerY + size, vel)
      s3 == createNode(m, s2, c, centerX + Scale(size, 900), centerY + size, vel)
      s4 == createLink(m, s3, a, b, lk)
      s5 == createLink(m, s4, b, c, lk)
      s6 == createLink(m, s5, c, a, lk)
      s7 == createAngleConstraint(s6, a, b, c, TriangleAngleStiffness)
      s8 == createAngleConstraint(s7, b, c, a, TriangleAngleStiffness)
  IN createAngleConstraint(s8, c, a, b, TriangleAngleStiffness)

-----------------------------------------------------------------------------
(* Node, Link, AngleConstraint: physics *)

applyForce(n, fx, fy) ==
  [n EXCEPT !.ax = n.ax + RoundDiv(fx, n.mass), !.ay = n.ay + RoundDiv(fy, n.mass)]

\* Verlet integration without the pinned branch of lines 361-366
integrate_Unpinned(n, dtInv, damping) ==
  LET vx == Scale(n.x - n.px, damping)
      vy == Scale(n.y - n.py, damping)
  IN [n EXCEPT !.x = n.x + vx + RoundDiv(n.ax, dtInv * dtInv),
               !.y = n.y + vy + RoundDiv(n.ay, dtInv * dtInv),
               !.px = n.x, !.py = n.y, !.ax = 0, !.ay = 0]

\* dt is 1/dtInv seconds
integrate(n, dtInv, damping) ==
  IF n.pinned
  THEN [n EXCEPT !.px = n.x, !.py = n.y, !.ax = 0, !.ay = 0]
  ELSE LET vx == Scale(n.x - n.px, damping)
           vy == Scale(n.y - n.py, damping)
       IN [n EXCEPT !.x = n.x + vx + RoundDiv(n.ax, dtInv * dtInv),
                    !.y = n.y + vy + RoundDiv(n.ay, dtInv * dtInv),
                    !.px = n.x, !.py = n.y, !.ax = 0, !.ay = 0]

\* the node array with the object `id` replaced; an object that is not in
\* the array is mutated out of the mesh's sight
Store(ns, id, n) ==
  IF IndexOf(ns, id) = 0 THEN ns ELSE [ns EXCEPT ![IndexOf(ns, id)] = n]

LinkSatisfy_SameSign(ns, l) ==
  LET Move(a, b, d) ==
        LET dx == b.x - a.x
            dy == b.y - a.y
            ox == IF d = 0 THEN 0
                  ELSE RoundDiv(RoundDiv(dx * (d - l.rest), d) * l.stiffness, 2000)
            oy == IF d = 0 THEN 0
                  ELSE RoundDiv(RoundDiv(dy * (d - l.rest), d) * l.stiffness, 2000)
            MoveB(ns1) ==
              LET b1 == Deref(ns1, l.b)
              IN IF b1.pinned THEN ns1
                 ELSE Store(ns1, l.b, [b1 EXCEPT !.x = b1.x + ox, !.y = b1.y + oy])
        IN MoveB(IF a.pinned THEN ns
                 ELSE Store(ns, l.a, [a EXCEPT !.x = a.x + ox, !.y = a.y + oy]))
      Measure(a, b) == Move(a, b, Hypot(b.x - a.x, b.y - a.y))
  IN Measure(Deref(ns, l.a), Deref(ns, l.b))

LinkSatisfy(ns, l) ==
  LET Move(a, b, d) ==
        LET dx == b.x - a.x
            dy == b.y - a.y
            \* d = 0 is replaced by 1e-6 in the program; dx = dy = 0 then,
            \* and the offsets are 0 times a finite number
            ox == IF d = 0 THEN 0
                  ELSE RoundDiv(RoundDiv(dx * (d - l.rest), d) * l.stiffness, 2000)
            oy == IF d = 0 THEN 0
                  ELSE RoundDiv(RoundDiv(dy * (d - l.rest), d) * l.stiffness, 2000)
            MoveB(ns1) ==
              LET b1 == Deref(ns1, l.b)
              IN IF b1.pinned THEN ns1
                 ELSE Store(ns1, l.b, [b1 EXCEPT !.x = b1.x - ox, !.y = b1.y - oy])
        IN MoveB(IF a.pinned THEN ns
                 ELSE Store(ns, l.a, [a EXCEPT !.x = a.x + ox, !.y = a.y + oy]))
      Measure(a, b) == Move(a, b, Hypot(b.x - a.x, b.y - a.y))
  IN Measure(Deref(ns, l.a), Deref(ns, l.b))

AngleConstraintSatisfy_AnyFree(ns, con) ==
  LET Move(a, c, currentDist) ==
        LET dx == c.x - a.x
            dy == c.y - a.y
            hx == IF currentDist = 0 THEN 0
                  ELSE RoundDiv(RoundDiv(dx * (currentDist - con.restDistance),
                                         currentDist) * con.stiffness, 8000)
            hy == IF currentDist = 0 THEN 0
                  ELSE RoundDiv(RoundDiv(dy * (currentDist - con.restDistance),
                                         currentDist) * con.stiffness, 8000)
            MoveC(ns1) ==
              LET c1 == Deref(ns1, con.c)
              IN IF c1.pinned THEN ns1
                 ELSE Store(ns1, con.c, [c1 EXCEPT !.x = c1.x - hx, !.y = c1.y - hy])
        IN MoveC(IF a.pinned THEN ns
                 ELSE Store(ns, con.a, [a EXCEPT !.x = a.x + hx, !.y = a.y + hy]))
      Measure(a, c) == Move(a, c, Hypot(c.x - a.x, c.y - a.y))
  IN Measure(Deref(ns, con.a), Deref(ns, con.c))

AngleConstraintSatisfy(ns, con) ==
  LET Move(a, c, currentDist) ==
        LET dx == c.x - a.x
            dy == c.y - a.y
            \* correctionX * 0.5 = dx * diff * stiffness * 0.25 * 0.5
            hx == IF currentDist = 0 THEN 0
                  ELSE RoundDiv(RoundDiv(dx * (currentDist - con.restDistance),
                                         currentDist) * con.stiffness, 8000)
            hy == IF currentDist = 0 THEN 0
                  ELSE RoundDiv(RoundDiv(dy * (currentDist - con.restDistance),
                                         currentDist) * con.stiffness, 8000)
            MoveC(ns1) ==
              LET c1 == Deref(ns1, con.c)
              IN Store(ns1, con.c, [c1 EXCEPT !.x = c1.x - hx, !.y = c1.y - hy])
        IN IF ~a.pinned /\ ~c.pinned
           THEN MoveC(Store(ns, con.a, [a EXCEPT !.x = a.x + hx, !.y = a.y + hy]))
           ELSE ns
      Measure(a, c) == Move(a, c, Hypot(c.x - a.x, c.y - a.y))
  IN Measure(Deref(ns, con.a), Deref(ns, con.c))

-----------------------------------------------------------------------------
(* Mesh: collisions and crossing prevention *)

\* _applyWallBounds without the test of lines 219-222 for the right wall
applyWallBounds_NoRightWall(m, n) ==
  LET n1 == IF n.x < n.r
            THEN [n EXCEPT !.x = n.r,
                           !.px = n.r + Scale(n.r - n.px, 0 - m.wallRestitution)]
            ELSE n
      n3 == IF n1.y < n1.r
            THEN [n1 EXCEPT !.y = n1.r,
                            !.py = n1.r + Scale(n1.r - n1.py, 0 - m.wallRestitution)]
            ELSE n1
  IN IF n.pinned THEN n ELSE n3

applyWallBounds(m, n) ==
  LET n1 == IF n.x < n.r
            THEN [n EXCEPT !.x = n.r,
                           !.px = n.r + Scale(n.r - n.px, 0 - m.wallRestitution)]
            ELSE n
      right == m.bounds.width - n1.r
      n2 == IF n1.x > right
            THEN [n1 EXCEPT !.x = right,
                            !.px = right + Scale(right - n1.px, 0 - m.wallRestitution)]
            ELSE n1
      n3 == IF n2.y < n2.r
            THEN [n2 EXCEPT !.y = n2.r,
                            !.py = n2.r + Scale(n2.r - n2.py, 0 - m.wallRestitution)]
            ELSE n2
  IN IF n.pinned THEN n ELSE n3

applyGroundCollision_IgnoresRadius(m, n) ==
  LET floor == m.groundY
      penetration == n.y - floor
      vx == n.x - n.px
      vy == floor - n.py
      vnAfter == Scale(0 - vy, m.groundRestitution)
      vtAfter == Scale(vx, m.friction)
  IN IF n.pinned THEN n
     ELSE IF penetration > 0
          THEN IF vy > 0
               THEN [n EXCEPT !.y = floor, !.px = n.x - vtAfter, !.py = floor - vnAfter]
               ELSE [n EXCEPT !.y = floor]
          ELSE n

applyGroundCollision(m, n) ==
  LET floor == m.groundY - n.r
      penetration == n.y - floor
      vx == n.x - n.px
      vy == floor - n.py
      vnAfter == Scale(0 - vy, m.groundRestitution)
      vtAfter == Scale(vx, m.friction)
  IN IF n.pinned THEN n
     ELSE IF penetration > 0
          THEN IF vy > 0
               THEN [n EXCEPT !.y = floor, !.px = n.x - vtAfter, !.py = floor - vnAfter]
               ELSE [n EXCEPT !.y = floor]
          ELSE n

\* _pushNodeFromPoint without `|| 1e-6`: dx / dist is 0 / 0 at the point itself
pushNodeFromPoint_NoEpsilon(ns, id, px, py, strength) ==
  LET Push(n, dist) ==
        IF n.pinned THEN ns
        ELSE IF dist = 0
             THEN Store(ns, id, [n EXCEPT !.x = NotFinite, !.y = NotFinite])
             ELSE Store(ns, id,
                   [n EXCEPT !.x = n.x + RoundDiv((n.x - px) * strength * Sub, dist * 1000),
                             !.y = n.y + RoundDiv((n.y - py) * strength * Sub, dist * 1000)])
      Measure(n) == Push(n, Hypot(n.x - px, n.y - py))
  IN Measure(Deref(ns, id))

pushNodeFromPoint(ns, id, px, py, strength) ==
  LET Push(n, dist) ==
        \* dist = 0 is replaced by 1e-6; dx = dy = 0 then and the push is 0
        IF n.pinned \/ dist = 0 THEN ns
        ELSE Store(ns, id,
                   [n EXCEPT !.x = n.x + RoundDiv((n.x - px) * strength * Sub, dist * 1000),
                             !.y = n.y + RoundDiv((n.y - py) * strength * Sub, dist * 1000)])
      Measure(n) == Push(n, Hypot(n.x - px, n.y - py))
  IN Measure(Deref(ns, id))

RECURSIVE PushLoop(_, _, _, _, _)
\* the pushNodeFromPoint calls on the nodes `ids`, from the k-th on; with
\* no node in the array no push has an effect
PushLoop(ns, ids, ix, iy, k) ==
  IF Len(ns) = 0 \/ k > Len(ids) THEN ns
  ELSE PushLoop(pushNodeFromPoint(ns, ids[k], ix, iy, PushStrength), ids, ix, iy, k + 1)

\* _pushLinksApart without the test of line 286
pushLinksApart_NoMinDist(m, ns, link1, link2, intersection) ==
  PushLoop(ns, <<link1.a, link1.b, link2.a, link2.b>>,
           intersection.x, intersection.y, 1)

pushLinksApart(m, ns, link1, link2, intersection) ==
  LET ix == intersection.x
      iy == intersection.y
      Dist(id) == Hypot(Deref(ns, id).x - ix, Deref(ns, id).y - iy)
      minDistToNode == Min(Min(Dist(link1.a), Dist(link1.b)),
                           Min(Dist(link2.a), Dist(link2.b)))
  IN IF minDistToNode > m.defaultNodeRadius
     THEN PushLoop(ns, <<link1.a, link1.b, link2.a, link2.b>>, ix, iy, 1)
     ELSE ns

\* the body of the two nested loops, for the pair (i, j)
CrossPair(m, ns, ls, i, j) ==
  LET link1 == ls[i]
      link2 == ls[j]
      Resolve(intersection) ==
        IF intersection.hit THEN pushLinksApart(m, ns, link1, link2, intersection)
        ELSE ns
  IN IF link1.a = link2.a \/ link1.a = link2.b \/ link1.b = link2.a \/ link1.b = link2.b
     THEN ns
     ELSE Resolve(lineIntersection(Deref(ns, link1.a).x, Deref(ns, link1.a).y,
                                   Deref(ns, link1.b).x, Deref(ns, link1.b).y,
                                   Deref(ns, link2.a).x, Deref(ns, link2.a).y,
                                   Deref(ns, link2.b).x, Deref(ns, link2.b).y))

\* the k-th combination (i, j) of the two loops in program order, i before
\* j; the inner loop starts at j = i + 1
CrossStep(m, ns, ls, k) ==
  LET i == (k - 1) \div Len(ls) + 1
      j == ((k - 1) % Len(ls)) + 1
  IN IF j > i THEN CrossPair(m, ns, ls, i, j) ELSE ns

RECURSIVE CrossLoop(_, _, _, _, _)
\* the combinations lo..hi in order, the first half before the second; with
\* no node in the array no push has an effect
CrossLoop(m, ns, ls, lo, hi) ==
  IF Len(ns) = 0 \/ lo > hi THEN ns
  ELSE IF lo = hi THEN CrossStep(m, ns, ls, lo)
  ELSE CrossLoop(m, CrossLoop(m, ns, ls, lo, (lo + hi) \div 2), ls,
                 (lo + hi) \div 2 + 1, hi)

preventLinkCrossings(m, ns, ls) == CrossLoop(m, ns, ls, 1, Len(ls) * Len(ls))

-----------------------------------------------------------------------------
(* Mesh.step *)

\* the six passes with the constraints satisfied before the collisions
SolverIteration_SatisfyFirst ==
  <<"Link.satisfy", "AngleConstraint.satisfy", "_applyWallBounds",
    "_applyGroundCollision", "_preventLinkCrossings", "_preventLinkCrossings">>

\* the six passes of one solver iteration, in program order
SolverIteration ==
  <<"_applyWallBounds", "_applyGroundCollision", "_preventLinkCrossings",
    "Link.satisfy", "AngleConstraint.satisfy", "_preventLinkCrossings">>

\* the two passes before the solver loop
Prologue == <<"applyForce", "integrate">>

\* the body of a loop over the nodes, for one node
NodePass(m, dtInv, n, pass) ==
  CASE pass = "applyForce" -> applyForce(n, m.gravity.x * n.mass, m.gravity.y * n.mass)
    [] pass = "integrate" -> integrate(n, dtInv, m.damping)
    [] pass = "_applyWallBounds" -> applyWallBounds(m, n)
    [] pass = "_applyGroundCollision" -> applyGroundCollision(m, n)

\* for (const node of this.nodes)
MapNodes(m, dtInv, ns, pass) ==
  LET F[i \in 0..Len(ns)] ==
        IF i = 0 THEN <<>> ELSE Append(F[i - 1], NodePass(m, dtInv, ns[i], pass))
  IN F[Len(ns)]

RECURSIVE LinkLoop(_, _, _)
\* for (const link of this.links) link.satisfy(), from the i-th link on;
\* with no node in the array no link moves anything
LinkLoop(ns, ls, i) ==
  IF Len(ns) = 0 \/ i > Len(ls) THEN ns
  ELSE LinkLoop(LinkSatisfy(ns, ls[i]), ls, i + 1)

RECURSIVE AngleLoop(_, _, _)
\* for (const constraint of this.angleConstraints) constraint.satisfy(),
\* from the i-th constraint on
AngleLoop(ns, acs, i) ==
  IF Len(ns) = 0 \/ i > Len(acs) THEN ns
  ELSE AngleLoop(AngleConstraintSatisfy(ns, acs[i]), acs, i + 1)

\* one `for` loop of step: the nodes after the loop named `pass`
RunPass(m, ls, acs, dtInv, ns, pass) ==
  CASE pass \in {"applyForce", "integrate", "_applyWallBounds", "_applyGroundCollision"} ->
         MapNodes(m, dtInv, ns, pass)
    [] pass = "_preventLinkCrossings" -> preventLinkCrossings(m, ns, ls)
    [] pass = "Link.satisfy" -> LinkLoop(ns, ls, 1)
    [] pass = "AngleConstraint.satisfy" -> AngleLoop(ns, acs, 1)

\* one pass on s = [log, nodes, iteration]; log records the pass as it runs
Advance(m, ls, acs, dtInv, s, pass) ==
  [log |-> Append(s.log, pass),
   nodes |-> RunPass(m, ls, acs, dtInv, s.nodes, pass),
   iteration |-> s.iteration]

RECURSIVE RunPasses(_, _, _, _, _, _, _)
\* the passes of `passes` in order, on a state that has logged `from`
\* passes before them: the next pass is the one after those logged
RunPasses(m, ls, acs, dtInv, s, passes, from) ==
  IF Len(s.log) - from >= Len(passes) THEN s
  ELSE RunPasses(m, ls, acs, dtInv,
                 Advance(m, ls, acs, dtInv, s, passes[Len(s.log) - from + 1]),
                 passes, from)

NextIteration(s) == [s EXCEPT !.iteration = s.iteration + 1]

RECURSIVE SolverLoop(_, _, _, _, _)
\* for (iteration = 0; iteration < solverIterations; iteration++)
SolverLoop(m, ls, acs, dtInv, s) ==
  IF s.iteration < m.solverIterations
  THEN SolverLoop(m, ls, acs, dtInv,
                  NextIteration(RunPasses(m, ls, acs, dtInv, s, SolverIteration,
                                          Len(s.log))))
  ELSE s

\* step(deltaTime) with deltaTime = 1/dtInv: the nodes after the call and
\* the log of the passes it ran
step(m, ns, ls, acs, dtInv) ==
  SolverLoop(m, ls, acs, dtInv,
             RunPasses(m, ls, acs, dtInv,
                       [log |-> <<>>, nodes |-> ns, iteration |-> 0], Prologue, 0))

DefaultDtInv == 60

-----------------------------------------------------------------------------
(* The driver, goo.js *)

Degree(ls, id) == Cardinality({i \in DOMAIN ls : ls[i].a = id \/ ls[i].b = id})

\* every node of the mesh has at least two links
AllLinkedTwice(ns, ls) == \A id \in NodeIds(ns) : Degree(ls, id) >= 2

\* lastOp: what the last event did to the mesh: "step", "addNode" (the add
\* half of handleClick), "removeNode", and "none" for every other event.
\* For addNode and removeNode it keeps the size of the mesh before the call
\* and whether every node had two links then; for removeNode, whether the
\* argument was in the mesh.
Op(name, present) ==
  [op |-> name, present |-> present, nodesBefore |-> Len(nodes),
   linksBefore |-> Len(links), anglesBefore |-> Len(angleConstraints),
   linkedTwice |-> AllLinkedTwice(nodes, links)]

Plain(name) ==
  [op |-> name, present |-> FALSE, nodesBefore |-> 0, linksBefore |-> 0,
   anglesBefore |-> 0, linkedTwice |-> FALSE]

\* the mesh takes the result s of a step() call
Stepped(s) ==
  /\ nodes' = s.nodes
  /\ phaseLog' = s.log
  /\ ticks' = ticks + 1
  /\ lastOp' = Plain("step")

\* pointer positions the environment delivers, in world units
MousePoints ==
  {<<100, 90>>, <<100, 195>>, <<100, 150>>}

\* window sizes the environment resizes to, in world units
WindowSizes == {<<WIDTH, HEIGHT>>, <<WIDTH - 20, HEIGHT - 40>>}

InitGoo ==
  LET m == MeshNew(GooConfig)
      st == createTriangle(m, Structure(<<>>, <<>>, <<>>), 1,
                           RoundDiv(WIDTH * Sub * 5, 10),
                           RoundDiv(HEIGHT * Sub * 3, 10), TriangleSize * Sub)
  IN /\ mesh = m
     /\ nodes = st.nodes
     /\ links = st.links
     /\ angleConstraints = st.angleConstraints
     /\ mouse = [x |-> RoundDiv(WIDTH * Sub * 7, 10), y |-> RoundDiv(HEIGHT * Sub * 2, 10)]
     /\ isDeleteMode = FALSE
     /\ hoveredNode = NoNode
     /\ nextId = 4
     /\ ticks = 0
     /\ lastOp = Plain("none")
     /\ phaseLog = <<>>

\* the app.ticker callback
TickerCallback ==
  /\ hoveredNode' = getNodeAt(nodes, mouse.x, mouse.y)
  /\ isDeleteMode' = (hoveredNode' # NoNode)
  /\ Stepped(step(mesh, nodes, links, angleConstraints, DefaultDtInv))
  /\ UNCHANGED <<mesh, links, angleConstraints, mouse, nextId>>

Tick ==
  /\ ticks < MaxTicks
  /\ TickerCallback

\* the pointermove listener
PointerMove ==
  \E p \in MousePoints :
     /\ mouse' = [x |-> p[1] * Sub, y |-> p[2] * Sub]
     /\ lastOp' = Plain("none")
     /\ UNCHANGED <<mesh, nodes, links, angleConstraints, isDeleteMode,
                    hoveredNode, nextId, ticks, phaseLog>>

\* the add-mode half of handleClick committing on the second check alone
AddNode_SecondCheckOnly(m, st, id, mx, my) ==
  LET nearest == getNearestNodes(st.nodes, mx, my, 2)
      tempCursor == EndPoint(NoNode, mx, my)
      canConnect2 == ~wouldLinkCross(st.nodes, st.links, tempCursor,
                                     NodePoint(st.nodes, nearest[2]))
      lk == [stiffness |-> {RoundDiv(m.stiffness * 15, 10)}, restMultiplier |-> {850}]
      s1 == createNode(m, st, id, mx, my,
                       [NoOptions EXCEPT !.radius = {CURSOR_R * Sub},
                                         !.initialVelocity = {[x |-> 0, y |-> 3 * Sub]}])
      s2 == createLink(m, s1, id, nearest[1], lk)
      s3 == createLink(m, s2, id, nearest[2], lk)
  IN IF Len(nearest) < 2 THEN st
     ELSE IF ~canConnect2 THEN st
          ELSE createAngleConstraint(s3, nearest[1], id, nearest[2], 500)

\* the add-mode half of handleClick, lines 81-104, for the new object `id`
AddNode(m, st, id, mx, my) ==
  LET nearest == getNearestNodes(st.nodes, mx, my, 2)
      tempCursor == EndPoint(NoNode, mx, my)
      canConnect1 == ~wouldLinkCross(st.nodes, st.links, tempCursor,
                                     NodePoint(st.nodes, nearest[1]))
      canConnect2 == ~wouldLinkCross(st.nodes, st.links, tempCursor,
                                     NodePoint(st.nodes, nearest[2]))
      lk == [stiffness |-> {RoundDiv(m.stiffness * 15, 10)}, restMultiplier |-> {850}]
      s1 == createNode(m, st, id, mx, my,
                       [NoOptions EXCEPT !.radius = {CURSOR_R * Sub},
                                         !.initialVelocity = {[x |-> 0, y |-> 3 * Sub]}])
      s2 == createLink(m, s1, id, nearest[1], lk)
      s3 == createLink(m, s2, id, nearest[2], lk)
  IN IF Len(nearest) < 2 THEN st
     ELSE IF ~canConnect1 \/ ~canConnect2 THEN st
          ELSE createAngleConstraint(s3, nearest[1], id, nearest[2], 500)

\* the pointerdown listener
HandleClick ==
  LET st == Structure(nodes, links, angleConstraints)
      deleting == isDeleteMode /\ hoveredNode # NoNode
      after == IF deleting
               THEN RemoveFrom(nodes, links, angleConstraints, hoveredNode)
               ELSE AddNode(mesh, st, nextId, mouse.x, mouse.y)
      added == Len(after.nodes) > Len(nodes)
  IN /\ added => nextId <= MaxIds
     /\ nodes' = after.nodes
     /\ links' = after.links
     /\ angleConstraints' = after.angleConstraints
     /\ nextId' = IF added THEN nextId + 1 ELSE nextId
     /\ lastOp' = IF deleting
                  THEN Op("removeNode", hoveredNode \in NodeIds(nodes))
                  ELSE Op("addNode", FALSE)
     /\ UNCHANGED <<mesh, mouse, isDeleteMode, hoveredNode, ticks, phaseLog>>

\* the resize listener: setBounds and setGroundY
Resize ==
  \E w \in WindowSizes :
     /\ mesh' = [mesh EXCEPT !.bounds = [width |-> w[1] * Sub, height |-> w[2] * Sub],
                             !.groundY = (w[2] - GroundMargin) * Sub]
     /\ lastOp' = Plain("none")
     /\ UNCHANGED <<nodes, links, angleConstraints, mouse, isDeleteMode,
                    hoveredNode, nextId, ticks, phaseLog>>

Next == Tick \/ PointerMove \/ HandleClick \/ Resize

Spec == InitGoo /\ [][Next]_vars

\* the driver in a window that is not resized, over more frames
LongTick ==
  /\ ticks < MaxLongTicks
  /\ TickerCallback

NextLong == LongTick \/ PointerMove \/ HandleClick

SpecLong == InitGoo /\ [][NextLong]_vars

-----------------------------------------------------------------------------
(* The library called directly: structure *)

InitLibrary(m) ==
  /\ mesh = m
  /\ nodes = <<>>
  /\ links = <<>>
  /\ angleConstraints = <<>>
  /\ mouse = [x |-> 0, y |-> 0]
  /\ isDeleteMode = FALSE
  /\ hoveredNode = NoNode
  /\ nextId = 1
  /\ ticks = 0
  /\ lastOp = Plain("none")
  /\ phaseLog = <<>>

InitMesh == InitLibrary(MeshNew(NoConfig))

driverVars == <<mouse, isDeleteMode, hoveredNode>>

\* mesh.createNode(x, y, options)
CreateNode(x, y, options) ==
  /\ nodes' = createNode(mesh, Structure(nodes, links, angleConstraints),
                         nextId, x, y, options).nodes
  /\ nextId' = nextId + 1
  /\ lastOp' = Plain("none")
  /\ UNCHANGED <<mesh, links, angleConstraints, ticks, phaseLog, driverVars>>

\* mesh.createLink(a, b, options)
CreateLink(a, b, options) ==
  /\ links' = createLink(mesh, Structure(nodes, links, angleConstraints),
                         a, b, options).links
  /\ lastOp' = Plain("none")
  /\ UNCHANGED <<mesh, nodes, angleConstraints, nextId, ticks, phaseLog, driverVars>>

\* mesh.createAngleConstraint(a, b, c)
CreateAngleConstraint(a, b, c) ==
  /\ angleConstraints' =
       createAngleConstraint(Structure(nodes, links, angleConstraints),
                             a, b, c, DefaultAngleStiffness).angleConstraints
  /\ lastOp' = Plain("none")
  /\ UNCHANGED <<mesh, nodes, links, nextId, ticks, phaseLog, driverVars>>

\* mesh.removeNode(node)
RemoveNode(id) ==
  LET after == RemoveFrom(nodes, links, angleConstraints, id)
  IN /\ nodes' = after.nodes
     /\ links' = after.links
     /\ angleConstraints' = after.angleConstraints
     /\ lastOp' = Op("removeNode", id \in NodeIds(nodes))
     /\ UNCHANGED <<mesh, nextId, ticks, phaseLog, driverVars>>

\* mesh.createTriangle(centerX, centerY)
CreateTriangle(centerX, centerY) ==
  LET after == createTriangle(mesh, Structure(nodes, links, angleConstraints),
                              nextId, centerX, centerY, TriangleSize * Sub)
  IN /\ nodes' = after.nodes
     /\ links' = after.links
     /\ angleConstraints' = after.angleConstraints
     /\ nextId' = nextId + 3
     /\ lastOp' = Plain("none")
     /\ UNCHANGED <<mesh, ticks, phaseLog, driverVars>>

\* mesh.step(1 / dtInv)
Step(dtInv) ==
  /\ Stepped(step(mesh, nodes, links, angleConstraints, dtInv))
  /\ UNCHANGED <<mesh, links, angleConstraints, nextId, driverVars>>

\* where the structure specification puts nodes, in world units
MeshPoints == {<<100, 100>>}

MeshCreateNode ==
  /\ nextId <= MaxMeshIds
  /\ \E p \in MeshPoints : CreateNode(p[1] * Sub, p[2] * Sub, NoOptions)

\* the node created last, if it is still in the mesh
Newest(ns) == {nextId - 1} \cap NodeIds(ns)

\* links are drawn from the newest node to any node, itself included
MeshCreateLink ==
  /\ Len(links) < MaxLinks
  /\ \E a \in Newest(nodes), b \in NodeIds(nodes) :
        CreateLink(a, b, [stiffness |-> {}, restMultiplier |-> {}])

\* constraints span the first two nodes of the array through the newest
\* node, and are created before the links: removeNode filters the two lists
\* independently of each other
MeshCreateAngleConstraint ==
  /\ links = <<>>
  /\ Len(angleConstraints) < MaxAngles
  /\ Len(nodes) >= 2
  /\ \E b \in Newest(nodes) : CreateAngleConstraint(nodes[1].id, b, nodes[2].id)

\* a node of the mesh, a node removed earlier, or a Node the mesh never held
MeshRemoveNode ==
  \E id \in (1..(nextId - 1)) \cup {ForeignNode} : RemoveNode(id)

MeshCreateTriangle ==
  /\ nodes = <<>>
  /\ nextId + 2 <= MaxMeshIds
  /\ CreateTriangle(100 * Sub, 100 * Sub)

NextMesh ==
  \/ MeshCreateNode
  \/ MeshCreateLink
  \/ MeshCreateAngleConstraint
  \/ MeshRemoveNode
  \/ MeshCreateTriangle

SpecMesh == InitMesh /\ [][NextMesh]_vars

-----------------------------------------------------------------------------
(* The library called directly: a mesh is built, then stepped *)

\* configurations the mesh is constructed with
SimConfigs ==
  {NoConfig,
   [NoConfig EXCEPT !.solverIterations = {0}],
   [NoConfig EXCEPT !.solverIterations = {2}, !.groundY = {30 * Sub},
                    !.bounds = {[width |-> 100 * Sub, height |-> 120 * Sub]}]}

InitSim == \E c \in SimConfigs : InitLibrary(MeshNew(c))

\* where the k-th node goes, in world units: the first four are the corners
\* of a square, so that links 1-2 and 3-4 cross
SimPoint(k) ==
  CASE k = 1 -> <<0, 0>>
    [] k = 2 -> <<40, 40>>
    [] k = 3 -> <<40, 0>>
    [] k = 4 -> <<0, 40>>
    [] OTHER -> <<20 * k, 20>>

\* the options the k-th node is created with: free with a velocity, or
\* pinned, with a velocity for odd k and at rest for even k
SimOptions(k) ==
  {[NoOptions EXCEPT !.initialVelocity = {[x |-> 0, y |-> 2 * Sub]}],
   IF k % 2 = 1
   THEN [NoOptions EXCEPT !.pinned = TRUE,
                          !.initialVelocity = {[x |-> Sub, y |-> 2 * Sub]}]
   ELSE [NoOptions EXCEPT !.pinned = TRUE]}

SimLinkInputs == {<<1, 2>>, <<3, 4>>}

SimAngleInputs == {<<1, 3, 2>>}

SimCreateNode ==
  /\ ticks = 0
  /\ nextId <= MaxSimNodes
  /\ \E o \in SimOptions(nextId) :
        CreateNode(SimPoint(nextId)[1] * Sub, SimPoint(nextId)[2] * Sub, o)

SimCreateLink ==
  /\ ticks = 0
  /\ Len(links) < MaxSimLinks
  /\ \E l \in SimLinkInputs :
        /\ {l[1], l[2]} \subseteq NodeIds(nodes)
        /\ CreateLink(l[1], l[2], [stiffness |-> {}, restMultiplier |-> {}])

SimCreateAngleConstraint ==
  /\ ticks = 0
  /\ Len(angleConstraints) < MaxAngles
  /\ \E t \in SimAngleInputs :
        /\ {t[1], t[2], t[3]} \subseteq NodeIds(nodes)
        /\ CreateAngleConstraint(t[1], t[2], t[3])

SimStep ==
  /\ ticks < MaxSteps
  /\ Step(DefaultDtInv)

NextSim == SimCreateNode \/ SimCreateLink \/ SimCreateAngleConstraint \/ SimStep

SpecSim == InitSim /\ [][NextSim]_vars

-----------------------------------------------------------------------------
(* The library called directly: scenes for the crossing query *)

\* node positions, in grid units: the corners of a square and its centre
QueryPoints == {<<0, 0>>, <<2, 2>>, <<2, 0>>, <<0, 2>>, <<1, 1>>}

QueryLinkInputs == {<<1, 2>>, <<2, 3>>}

QueryCreateNode ==
  /\ nextId <= MaxQueryNodes
  /\ \E p \in QueryPoints : CreateNode(p[1], p[2], NoOptions)

\* a pair of nodes is linked once: the query asks whether some link crosses
QueryCreateLink ==
  /\ Len(links) < MaxQueryLinks
  /\ \E l \in QueryLinkInputs :
        /\ {l[1], l[2]} \subseteq NodeIds(nodes)
        /\ \A i \in DOMAIN links : <<links[i].a, links[i].b>> # l
        /\ CreateLink(l[1], l[2], [stiffness |-> {}, restMultiplier |-> {}])

NextQuery == QueryCreateNode \/ QueryCreateLink

SpecQuery == InitMesh /\ [][NextQuery]_vars

-----------------------------------------------------------------------------
(* The library called directly: one node against the walls *)

\* lastOp for a call of `name` on the argument `arg`
Called(name, arg) ==
  [op |-> name, present |-> FALSE, nodesBefore |-> 0, linksBefore |-> 0,
   anglesBefore |-> 0, linkedTwice |-> FALSE, arg |-> arg]

setBounds(m, width, height) ==
  [m EXCEPT !.bounds = [width |-> width, height |-> height]]

\* the world is 100 wide; the second mesh bounces without loss
WallConfigs ==
  {[NoConfig EXCEPT !.bounds = {[width |-> 100 * Sub, height |-> 100 * Sub]}],
   [NoConfig EXCEPT !.bounds = {[width |-> 100 * Sub, height |-> 100 * Sub]},
                    !.wallRestitution = {1000}]}

InitWall == \E c \in WallConfigs : InitLibrary(MeshNew(c))

\* node positions, in world units: within a radius of the left wall, inside,
\* within a radius of the right wall; within a radius of the top wall, inside
WallXs == {5, 50, 97}

WallYs == {3, 50}

\* velocities per step, in world units
WallVelocities == {<<0 - 5, 0 - 5>>, <<5, 0>>, <<0, 0>>}

WallRadii == {{}, {2 * Sub}}

\* widths setBounds is called with, in world units: narrower than a node,
\* and wide
WallWidths == {10, 60}

\* the scene has one node
WallCreateNode ==
  /\ nodes = <<>>
  /\ \E x \in WallXs, y \in WallYs, v \in WallVelocities, r \in WallRadii,
        pinned \in BOOLEAN :
        CreateNode(x * Sub, y * Sub,
                   [NoOptions EXCEPT
                      !.radius = r, !.pinned = pinned,
                      !.initialVelocity = {[x |-> v[1] * Sub, y |-> v[2] * Sub]}])

\* mesh.setBounds(width, height)
WallSetBounds ==
  \E w \in WallWidths :
     /\ mesh' = setBounds(mesh, w * Sub, mesh.bounds.height)
     /\ lastOp' = Plain("none")
     /\ UNCHANGED <<nodes, links, angleConstraints, nextId, ticks, phaseLog, driverVars>>

\* mesh._applyWallBounds(node)
WallApply ==
  /\ ticks < MaxWallCalls
  /\ \E i \in DOMAIN nodes :
        /\ nodes' = [nodes EXCEPT ![i] = applyWallBounds(mesh, nodes[i])]
        /\ lastOp' = Called("_applyWallBounds", i)
  /\ ticks' = ticks + 1
  /\ UNCHANGED <<mesh, links, angleConstraints, nextId, phaseLog, driverVars>>

NextWall == WallCreateNode \/ WallSetBounds \/ WallApply

SpecWall == InitWall /\ [][NextWall]_vars

-----------------------------------------------------------------------------
(* The library called directly: a triangle dropped on the ground *)

\* gravity (0,175), 6 solver iterations, ground at y = 500
ScenarioConfig ==
  [NoConfig EXCEPT !.gravity = {[x |-> 0, y |-> 175 * Sub]},
                   !.solverIterations = {6},
                   !.groundY = {500 * Sub}]

\* heights of the triangle's top node at the start, in world units; the
\* bottom nodes are TriangleSize lower, the lowest start has them 2 above
\* their rest on the ground
ScenarioHeights == {300, 400, 420}

InitScenario ==
  \E cy \in ScenarioHeights :
     LET m == MeshNew(ScenarioConfig)
         st == createTriangle(m, Structure(<<>>, <<>>, <<>>), 1,
                              400 * Sub, cy * Sub, TriangleSize * Sub)
     IN /\ mesh = m
        /\ nodes = st.nodes
        /\ links = st.links
        /\ angleConstraints = st.angleConstraints
        /\ mouse = [x |-> 0, y |-> 0]
        /\ isDeleteMode = FALSE
        /\ hoveredNode = NoNode
        /\ nextId = 4
        /\ ticks = 0
        /\ lastOp = Plain("none")
        /\ phaseLog = <<>>

\* mesh.step(1/60)
ScenarioStep ==
  /\ ticks < MaxScenarioSteps
  /\ Step(DefaultDtInv)

NextScenario == ScenarioStep

SpecScenario == InitScenario /\ [][NextScenario]_vars

-----------------------------------------------------------------------------
(* The library called directly: the nearest nodes of a point *)

\* node positions, in grid units: three of them are equally far from (1,1),
\* and two nodes may lie on the same point
NearestPoints == {<<0, 0>>, <<2, 0>>, <<0, 2>>, <<3, 0>>}

NearestTargets == {<<1, 1>>, <<0, 0>>}

NearestCreateNode ==
  /\ nextId <= MaxNearestNodes
  /\ \E p \in NearestPoints : CreateNode(p[1], p[2], NoOptions)

\* mesh.getNearestNodes(x, y, count): the call and what it returned
NearestQuery ==
  /\ \E q \in NearestTargets, count \in 0..MaxNearestCount :
        lastOp' = Called("getNearestNodes",
                         [x |-> q[1], y |-> q[2], count |-> count,
                          result |-> getNearestNodes(nodes, q[1], q[2], count)])
  /\ UNCHANGED <<mesh, nodes, links, angleConstraints, nextId, ticks,
                 phaseLog, driverVars>>

NextNearest == NearestCreateNode \/ NearestQuery

SpecNearest == InitMesh /\ [][NextNearest]_vars

-----------------------------------------------------------------------------
(* The library called directly: one link between two nodes *)

\* no gravity; the mesh's stiffness is 1.0 or 0.5
LinkConfigs ==
  {[NoConfig EXCEPT !.gravity = {[x |-> 0, y |-> 0]}, !.stiffness = {1000}],
   [NoConfig EXCEPT !.gravity = {[x |-> 0, y |-> 0]}, !.stiffness = {500}]}

InitLink == \E c \in LinkConfigs : InitLibrary(MeshNew(c))

\* node positions, in world units: two points 200 apart, one off the axis,
\* and two points beyond the left wall, which the wall pass of step() brings
\* to the same place
LinkPoints == {<<100, 50>>, <<300, 50>>, <<130, 90>>, <<0 - 5, 50>>, <<0 - 10, 50>>}

\* restMultiplier: not given (1.0), 0.5 or 1.5
LinkRestMultipliers == {{}, {500}, {1500}}

LinkCreateNode ==
  /\ ticks = 0
  /\ Len(nodes) < 2
  /\ \E p \in LinkPoints, pinned \in BOOLEAN :
        CreateNode(p[1] * Sub, p[2] * Sub, [NoOptions EXCEPT !.pinned = pinned])

LinkCreateLink ==
  /\ ticks = 0
  /\ Len(nodes) = 2
  /\ links = <<>>
  /\ \E rm \in LinkRestMultipliers :
        CreateLink(1, 2, [stiffness |-> {}, restMultiplier |-> rm])

\* mesh.step(1/60), once, before the link is satisfied on its own
LinkStep ==
  /\ ticks = 0
  /\ links # <<>>
  /\ Step(DefaultDtInv)

\* link.satisfy()
LinkSatisfyCall ==
  /\ ticks < MaxLinkCalls
  /\ \E i \in DOMAIN links :
        /\ nodes' = LinkSatisfy(nodes, links[i])
        /\ lastOp' = Called("Link.satisfy", i)
  /\ ticks' = ticks + 1
  /\ UNCHANGED <<mesh, links, angleConstraints, nextId, phaseLog, driverVars>>

NextLink == LinkCreateNode \/ LinkCreateLink \/ LinkStep \/ LinkSatisfyCall

SpecLink == InitLink /\ [][NextLink]_vars

-----------------------------------------------------------------------------
(* The library called directly: one angle constraint over three nodes *)

AngleConfig == [NoConfig EXCEPT !.gravity = {[x |-> 0, y |-> 0]}]

InitAngle == InitLibrary(MeshNew(AngleConfig))

\* where the k-th node goes, in world units: the outer nodes 1 and 3 and,
\* between and above them, the centre node 2
AnglePoint(k) ==
  CASE k = 1 -> <<100, 100>>
    [] k = 2 -> <<150, 60>>
    [] OTHER -> <<200, 100>>

\* at rest, or moving left at 10 units per step
AngleVelocities == {{}, {[x |-> 0 - 10 * Sub, y |-> 0]}}

AngleCreateNode ==
  /\ ticks = 0
  /\ Len(nodes) < 3
  /\ \E pinned \in BOOLEAN, v \in AngleVelocities :
        CreateNode(AnglePoint(nextId)[1] * Sub, AnglePoint(nextId)[2] * Sub,
                   [NoOptions EXCEPT !.pinned = pinned, !.initialVelocity = v])

\* mesh.createAngleConstraint(a, b, c), b the centre
AngleCreateConstraint ==
  /\ ticks = 0
  /\ Len(nodes) = 3
  /\ angleConstraints = <<>>
  /\ CreateAngleConstraint(1, 2, 3)

\* a link between the outer nodes, half as long as they are apart
AngleCreateLink ==
  /\ ticks = 0
  /\ Len(nodes) = 3
  /\ links = <<>>
  /\ CreateLink(1, 3, [stiffness |-> {}, restMultiplier |-> {500}])

\* mesh.step(1/60), once, before a constraint is satisfied on its own
AngleStep ==
  /\ ticks = 0
  /\ angleConstraints # <<>>
  /\ Step(DefaultDtInv)

\* angleConstraint.satisfy()
AngleSatisfyCall ==
  /\ ticks < MaxAngleCalls
  /\ \E i \in DOMAIN angleConstraints :
        /\ nodes' = AngleConstraintSatisfy(nodes, angleConstraints[i])
        /\ lastOp' = Called("AngleConstraint.satisfy",
                            [index |-> i,
                             moved |-> AngleConstraintSatisfy(nodes, angleConstraints[i])
                                         # nodes])
  /\ ticks' = ticks + 1
  /\ UNCHANGED <<mesh, links, angleConstraints, nextId, phaseLog, driverVars>>

NextAngle ==
  \/ AngleCreateNode
  \/ AngleCreateConstraint
  \/ AngleCreateLink
  \/ AngleStep
  \/ AngleSatisfyCall
  \/ LinkSatisfyCall

SpecAngle == InitAngle /\ [][NextAngle]_vars

-----------------------------------------------------------------------------
(* The library called directly: the constructor's configuration *)

\* configurations with no parameter or one parameter supplied; factors are
\* in thousandths, 0 is in the range of stiffness, of the restitutions and
\* of friction, and a ground at y = 0 is the top of the world
Configs ==
  {NoConfig}
    \cup {[NoConfig EXCEPT !.damping = {v}] : v \in {900}}
    \cup {[NoConfig EXCEPT !.solverIterations = {v}] : v \in {3}}
    \cup {[NoConfig EXCEPT !.stiffness = {v}] : v \in {0, 500, 1000}}
    \cup {[NoConfig EXCEPT !.wallRestitution = {v}] : v \in {0, 500}}
    \cup {[NoConfig EXCEPT !.groundRestitution = {v}] : v \in {0, 500}}
    \cup {[NoConfig EXCEPT !.friction = {v}] : v \in {0, 500}}
    \cup {[NoConfig EXCEPT !.groundY = {v}] : v \in {0, 100 * Sub}}
    \cup {[NoConfig EXCEPT !.defaultNodeRadius = {v}] : v \in {5 * Sub}}
    \cup {[NoConfig EXCEPT !.defaultNodeMass = {v}] : v \in {10}}

\* the stiffness option of createLink: not given, 0 or 0.5
LinkStiffnessOptions == {{}, {0}, {500}}

\* new Mesh(config); the call's argument is kept for the properties
InitConfig ==
  \E c \in Configs :
     /\ mesh = MeshNew(c)
     /\ nodes = <<>>
     /\ links = <<>>
     /\ angleConstraints = <<>>
     /\ mouse = [x |-> 0, y |-> 0]
     /\ isDeleteMode = FALSE
     /\ hoveredNode = NoNode
     /\ nextId = 1
     /\ ticks = 0
     /\ lastOp = Called("Mesh", [config |-> c, options |-> {}])
     /\ phaseLog = <<>>

ConfigCreateNode ==
  /\ Len(nodes) < 2
  /\ \E x \in {10, 40} :
        /\ nodes' = createNode(mesh, Structure(nodes, links, angleConstraints),
                               nextId, x * Sub, 20 * Sub, NoOptions).nodes
        /\ nextId' = nextId + 1
        /\ lastOp' = Called("createNode", lastOp.arg)
  /\ UNCHANGED <<mesh, links, angleConstraints, ticks, phaseLog, driverVars>>

\* mesh.createLink(a, b, {stiffness})
ConfigCreateLink ==
  /\ Len(nodes) = 2
  /\ Len(links) < MaxConfigLinks
  /\ \E s \in LinkStiffnessOptions :
        /\ links' = createLink(mesh, Structure(nodes, links, angleConstraints),
                               1, 2, [stiffness |-> s, restMultiplier |-> {}]).links
        /\ lastOp' = Called("createLink", [lastOp.arg EXCEPT !.options = {s}])
  /\ UNCHANGED <<mesh, nodes, angleConstraints, nextId, ticks, phaseLog, driverVars>>

NextConfig == ConfigCreateNode \/ ConfigCreateLink

SpecConfig == InitConfig /\ [][NextConfig]_vars

-----------------------------------------------------------------------------
(* The library called directly: nodes at the same place *)

\* the outer nodes 1 and 3 start beyond the left wall, at the same point or
\* 5 apart; the wall pass of step() brings the free ones to the same place
CoincidentPoints == {<<0 - 5, 50>>, <<0 - 10, 50>>}

CoincidentCreateNode ==
  /\ ticks = 0
  /\ Len(nodes) < 3
  /\ \E p \in IF nextId = 2 THEN {<<50, 20>>} ELSE CoincidentPoints,
        pinned \in BOOLEAN :
        CreateNode(p[1] * Sub, p[2] * Sub, [NoOptions EXCEPT !.pinned = pinned])

CoincidentCreateLink ==
  /\ ticks = 0
  /\ Len(nodes) = 3
  /\ links = <<>>
  /\ CreateLink(1, 3, [stiffness |-> {}, restMultiplier |-> {}])

CoincidentCreateConstraint ==
  /\ ticks = 0
  /\ Len(nodes) = 3
  /\ angleConstraints = <<>>
  /\ CreateAngleConstraint(1, 2, 3)

\* mesh.step(1/60): Node.integrate and all constraints
CoincidentStep ==
  /\ ticks < MaxCoincidentCalls
  /\ Len(nodes) = 3
  /\ Step(DefaultDtInv)

\* mesh._pushNodeFromPoint(node, x, y, 0.3) with the node's own position
CoincidentPush ==
  /\ ticks < MaxCoincidentCalls
  /\ \E i \in DOMAIN nodes :
        /\ nodes' = pushNodeFromPoint(nodes, nodes[i].id, nodes[i].x, nodes[i].y,
                                      PushStrength)
        /\ lastOp' = Called("_pushNodeFromPoint", i)
  /\ ticks' = ticks + 1
  /\ UNCHANGED <<mesh, links, angleConstraints, nextId, phaseLog, driverVars>>

NextCoincident ==
  \/ CoincidentCreateNode
  \/ CoincidentCreateLink
  \/ CoincidentCreateConstraint
  \/ CoincidentStep
  \/ CoincidentPush
  \/ LinkSatisfyCall
  \/ AngleSatisfyCall

SpecCoincident == InitAngle /\ [][NextCoincident]_vars

-----------------------------------------------------------------------------
(* The library called directly: the crossing-prevention pass *)

\* where the k-th node may go, in world units. Link 1-2 is a diagonal; link
\* 3-4 crosses it in the middle, crosses it within a node radius of node 1,
\* or misses it
CrossPoints(k) ==
  CASE k = 1 -> {<<100, 100>>}
    [] k = 2 -> {<<140, 140>>}
    [] k = 3 -> {<<140, 100>>, <<104, 100>>}
    [] OTHER -> {<<100, 140>>, <<150, 120>>}

\* link 2-3 shares an endpoint with each of the other two
CrossLinkInputs == {<<1, 2>>, <<3, 4>>, <<2, 3>>}

CrossCreateNode ==
  /\ ticks = 0
  /\ links = <<>>
  /\ Len(nodes) < 4
  /\ \E p \in CrossPoints(nextId), pinned \in BOOLEAN :
        CreateNode(p[1] * Sub, p[2] * Sub, [NoOptions EXCEPT !.pinned = pinned])

CrossCreateLink ==
  /\ ticks = 0
  /\ Len(nodes) = 4
  /\ Len(links) < MaxCrossLinks
  /\ \E l \in CrossLinkInputs :
        /\ \A i \in DOMAIN links : <<links[i].a, links[i].b>> # l
        /\ CreateLink(l[1], l[2], [stiffness |-> {}, restMultiplier |-> {}])

\* mesh._preventLinkCrossings()
CrossCall ==
  /\ ticks < MaxCrossCalls
  /\ links # <<>>
  /\ nodes' = preventLinkCrossings(mesh, nodes, links)
  /\ lastOp' = Called("_preventLinkCrossings", Len(links))
  /\ ticks' = ticks + 1
  /\ UNCHANGED <<mesh, links, angleConstraints, nextId, phaseLog, driverVars>>

NextCross == CrossCreateNode \/ CrossCreateLink \/ CrossCall

SpecCross == InitMesh /\ [][NextCross]_vars

-----------------------------------------------------------------------------
(* The library called directly: removeNode, call by call *)

\* lines 52-73 of removeNode without the filter of lines 60-62: the node's
\* links stay
removeNodeEnter_KeepsLinks(ns, ls, acs, stack, id) ==
  LET d == Detach([nodes |-> ns, links |-> ls, angleConstraints |-> acs,
                   calls |-> 0], id)
  IN [nodes |-> d.nodes, links |-> ls,
      angleConstraints |-> d.angleConstraints,
      stack |-> Append(stack, [node |-> id,
                               connectedNodes |-> ConnectedNodes(ls, id),
                               k |-> 1,
                               result |-> RemoveFrom(ns, ls, acs, id)])]

\* a call of removeNode(id) up to its loop over the neighbours (lines
\* 52-73): the neighbours are collected, the links, constraints and node go,
\* and the call's frame, with the position k of its loop, is on the stack.
\* The frame also keeps what removeNode as a whole makes of the mesh
removeNodeEnter(ns, ls, acs, stack, id) ==
  LET d == Detach([nodes |-> ns, links |-> ls, angleConstraints |-> acs,
                   calls |-> 0], id)
  IN [nodes |-> d.nodes, links |-> d.links,
      angleConstraints |-> d.angleConstraints,
      stack |-> Append(stack, [node |-> id,
                               connectedNodes |-> ConnectedNodes(ls, id),
                               k |-> 1,
                               result |-> RemoveFrom(ns, ls, acs, id)])]

\* the mesh and the stack take the state s; lastOp tells whether the node
\* of the call was in the mesh, whether it had links, and who called
Entered(s, id, recursive) ==
  /\ nodes' = s.nodes
  /\ links' = s.links
  /\ angleConstraints' = s.angleConstraints
  /\ phaseLog' = s.stack
  /\ lastOp' = Called("removeNode",
                      [node |-> id,
                       present |-> id \in NodeIds(nodes),
                       linked |-> ConnectedNodes(links, id) # <<>>,
                       recursive |-> recursive])

\* the top frame with its loop moved to the next neighbour
Advanced(stack) ==
  [stack EXCEPT ![Len(stack)].k = stack[Len(stack)].k + 1]

\* up to three nodes, enough for a cycle of links
RemoveCreateNode ==
  /\ ticks = 0
  /\ Len(nodes) < 3
  /\ CreateNode(100 * Sub, 100 * Sub, NoOptions)

\* links from the newest node to any node, itself included: self-links,
\* duplicates and cycles
RemoveCreateLink ==
  /\ ticks = 0
  /\ Len(links) < MaxRemoveLinks
  /\ \E a \in Newest(nodes), b \in NodeIds(nodes) :
        CreateLink(a, b, [stiffness |-> {}, restMultiplier |-> {}])

\* mesh.removeNode(node), called from outside
RemoveStart ==
  /\ ticks = 0
  /\ nodes # <<>>
  /\ \E id \in NodeIds(nodes) :
        Entered(removeNodeEnter(nodes, links, angleConstraints, phaseLog, id),
                id, FALSE)
  /\ ticks' = 1
  /\ UNCHANGED <<mesh, nextId, driverVars>>

\* one round of the loop of lines 75-84 in the innermost call: the
\* neighbour is skipped, or removeNode calls itself on it
RemoveLoop ==
  /\ phaseLog # <<>>
  /\ LET top == phaseLog[Len(phaseLog)]
     IN /\ top.k <= Len(top.connectedNodes)
        /\ IF ConnectionCount(links, top.connectedNodes[top.k]) < 2
           THEN /\ Len(phaseLog) < MaxRemoveDepth
                /\ Entered(removeNodeEnter(nodes, links, angleConstraints,
                                           Advanced(phaseLog),
                                           top.connectedNodes[top.k]),
                           top.connectedNodes[top.k], TRUE)
           ELSE /\ phaseLog' = Advanced(phaseLog)
                /\ lastOp' = Called("skip", top.connectedNodes[top.k])
                /\ UNCHANGED <<nodes, links, angleConstraints>>
  /\ UNCHANGED <<mesh, nextId, ticks, driverVars>>

\* the innermost call's loop is over: the call returns
RemoveReturn ==
  /\ phaseLog # <<>>
  /\ phaseLog[Len(phaseLog)].k > Len(phaseLog[Len(phaseLog)].connectedNodes)
  /\ phaseLog' = SubSeq(phaseLog, 1, Len(phaseLog) - 1)
  /\ lastOp' = Called("return", phaseLog[Len(phaseLog)].node)
  /\ UNCHANGED <<mesh, nodes, links, angleConstraints, nextId, ticks, driverVars>>

NextRemove ==
  \/ RemoveCreateNode
  \/ RemoveCreateLink
  \/ RemoveStart
  \/ RemoveLoop
  \/ RemoveReturn

SpecRemove == InitMesh /\ [][NextRemove]_vars

\* a call runs to its end without waiting for anything: JavaScript runs
\* removeNode synchronously
SpecRemoveLive ==
  SpecRemove /\ WF_vars(RemoveLoop) /\ WF_vars(RemoveReturn)

-----------------------------------------------------------------------------
(* Properties *)

\* a step() call has just been made
StepTaken == lastOp'.op = "step" /\ ticks' = ticks + 1

\* C1 as stated: across a step() every pinned node keeps its position and
\* its previous position, whatever it was created with.
C1_PinnedStateNeverChanges ==
  [][StepTaken =>
       \A i \in DOMAIN nodes :
          nodes[i].pinned =>
             /\ nodes'[i].x = nodes[i].x /\ nodes'[i].y = nodes[i].y
             /\ nodes'[i].px = nodes[i].px /\ nodes'[i].py = nodes[i].py]_vars

\* C1: across a step() every pinned node stays pinned and keeps its position
\* (x, y), and its previous position after the step is that position; so the
\* previous position is unchanged by a step exactly when the node was at
\* rest before it (created without initial velocity, or stepped before).
C1_PinnedPositionNeverChanges ==
  [][StepTaken =>
       \A i \in DOMAIN nodes :
          nodes[i].pinned =>
             /\ nodes'[i].pinned
             /\ nodes'[i].x = nodes[i].x /\ nodes'[i].y = nodes[i].y
             /\ nodes'[i].px = nodes[i].x /\ nodes'[i].py = nodes[i].y]_vars

\* after a second step: a pinned node outside the walls, linked to a free
\* node that is moving
C1_Witness ==
  /\ lastOp.op = "step" /\ ticks >= 2
  /\ \E i \in DOMAIN nodes, k \in DOMAIN links :
        /\ nodes[i].pinned
        /\ nodes[i].x < nodes[i].r
        /\ nodes[i].id \in {links[k].a, links[k].b}
        /\ \E j \in DOMAIN nodes :
              /\ nodes[j].id \in {links[k].a, links[k].b}
              /\ ~nodes[j].pinned
              /\ <<nodes[j].px, nodes[j].py>> # <<nodes[j].x, nodes[j].y>>

\* C2: if every node has at least 2 links when removeNode(n) is called,
\* every node still in the mesh when it returns has at least 2 links.
C2_RemovalKeepsTwoLinks ==
  [][(lastOp'.op = "removeNode" /\ AllLinkedTwice(nodes, links))
       => AllLinkedTwice(nodes', links')]_vars

\* a removal from a mesh where every node had 2 links that cascaded to a
\* neighbour and left a node behind
C2_Witness ==
  /\ lastOp.op = "removeNode" /\ lastOp.present /\ lastOp.linkedTwice
  /\ nodes # <<>>
  /\ Len(nodes) < lastOp.nodesBefore - 1

\* C3: in the driver, from the initial triangle and after any sequence of
\* ticks, pointer moves, clicks (adds committed or refused, deletions) and
\* resizes, every node of the mesh has at least 2 links.
C3_EveryNodeLinkedTwice == AllLinkedTwice(nodes, links)

\* a deletion, after a tick and a committed add, that left nodes behind
C3_Witness ==
  /\ lastOp.op = "removeNode" /\ lastOp.present
  /\ ticks > 0
  /\ nextId > 4
  /\ nodes # <<>>

\* C4: after any sequence of createNode, createLink and
\* createAngleConstraint on nodes of the mesh, and removeNode, both ends of
\* every link and the three nodes of every angle constraint are in the
\* mesh's node list.
C4_ReferentialIntegrity ==
  /\ \A i \in DOMAIN links : {links[i].a, links[i].b} \subseteq NodeIds(nodes)
  /\ \A i \in DOMAIN angleConstraints :
        {angleConstraints[i].a, angleConstraints[i].b, angleConstraints[i].c}
          \subseteq NodeIds(nodes)

\* a removal that took links and an angle constraint with it and left nodes
C4_Witness ==
  /\ lastOp.op = "removeNode" /\ lastOp.present
  /\ Len(links) < lastOp.linksBefore
  /\ Len(angleConstraints) < lastOp.anglesBefore
  /\ nodes # <<>>

\* C5: removeNode on a node that is not in the mesh leaves the nodes, the
\* links and the angle constraints as they were.
C5_RemoveAbsentIsNoOp ==
  [][(lastOp'.op = "removeNode" /\ ~lastOp'.present)
       => /\ nodes' = nodes
          /\ links' = links
          /\ angleConstraints' = angleConstraints]_vars

\* removeNode on an absent node, after an earlier removal, in a mesh that
\* has nodes and links
C5_Witness ==
  /\ lastOp.op = "removeNode" /\ ~lastOp.present
  /\ Len(nodes) < nextId - 1
  /\ nodes # <<>>
  /\ links # <<>>

\* the mesh is one triangle: 3 nodes, 3 links, 2 links at each node
IsTriangle(ns, ls) ==
  /\ Len(ns) = 3
  /\ Len(ls) = 3
  /\ \A id \in NodeIds(ns) : Degree(ls, id) = 2
  /\ \A i \in DOMAIN ls : {ls[i].a, ls[i].b} \subseteq NodeIds(ns)

\* C6: in a mesh that is exactly one triangle, removeNode on any of the
\* three nodes leaves no node, no link and no angle constraint.
C6_TriangleCollapses ==
  [][(lastOp'.op = "removeNode" /\ lastOp'.present /\ IsTriangle(nodes, links))
       => /\ nodes' = <<>>
          /\ links' = <<>>
          /\ angleConstraints' = <<>>]_vars

\* the empty mesh left by removing a node of createTriangle's triangle
C6_Witness ==
  /\ lastOp.op = "removeNode" /\ lastOp.present /\ lastOp.linkedTwice
  /\ lastOp.nodesBefore = 3 /\ lastOp.linksBefore = 3 /\ lastOp.anglesBefore = 3
  /\ nodes = <<>>

\* the add gesture at the pointer is refused
Refused ==
  LET nearest == getNearestNodes(nodes, mouse.x, mouse.y, 2)
      cursor == EndPoint(NoNode, mouse.x, mouse.y)
  IN \/ Len(nearest) < 2
     \/ \E k \in 1..2 :
           wouldLinkCross(nodes, links, cursor, NodePoint(nodes, nearest[k]))

\* exactly one node, the two links from it to the two nearest nodes and the
\* angle constraint around it are added
Committed ==
  LET nearest == getNearestNodes(nodes, mouse.x, mouse.y, 2)
      new == nodes'[Len(nodes')].id
      l1 == links'[Len(links) + 1]
      l2 == links'[Len(links) + 2]
      ac == angleConstraints'[Len(angleConstraints) + 1]
  IN /\ Len(nodes') = Len(nodes) + 1
     /\ SubSeq(nodes', 1, Len(nodes)) = nodes
     /\ new \notin NodeIds(nodes)
     /\ Len(links') = Len(links) + 2
     /\ SubSeq(links', 1, Len(links)) = links
     /\ <<l1.a, l1.b>> = <<new, nearest[1]>>
     /\ <<l2.a, l2.b>> = <<new, nearest[2]>>
     /\ Len(angleConstraints') = Len(angleConstraints) + 1
     /\ SubSeq(angleConstraints', 1, Len(angleConstraints)) = angleConstraints
     /\ <<ac.a, ac.b, ac.c>> = <<nearest[1], new, nearest[2]>>

\* C7: a click in add mode changes nothing in the mesh when fewer than 2
\* nodes exist or wouldLinkCross is true for the link to either of the two
\* nearest nodes; otherwise it adds exactly one node, two links and one
\* angle constraint.
C7_AddIsAllOrNothing ==
  [][lastOp'.op = "addNode" =>
       IF Refused
       THEN /\ nodes' = nodes
            /\ links' = links
            /\ angleConstraints' = angleConstraints
       ELSE Committed]_vars

\* a click refused because a link to one of the two nearest nodes would
\* cross, in a mesh that an earlier click has extended
C7_Witness ==
  /\ lastOp.op = "addNode"
  /\ lastOp.nodesBefore = Len(nodes)
  /\ Len(nodes) > 3
  /\ Refused

\* Segments p1-p2 and p3-p4 are not parallel and meet at parameters t and u
\* in [0,1]: t = i/d and u = j/d for the cross product d of the directions,
\* by Cramer's rule, so it is enough to look for i and j in 0..|d|.
ParametricMeet(p1, p2, p3, p4) ==
  LET d == Abs((p2.x - p1.x) * (p4.y - p3.y) - (p2.y - p1.y) * (p4.x - p3.x))
  IN /\ d # 0
     /\ \E i \in 0..d : \E j \in 0..d :
           /\ d * p1.x + i * (p2.x - p1.x) = d * p3.x + j * (p4.x - p3.x)
           /\ d * p1.y + i * (p2.y - p1.y) = d * p3.y + j * (p4.y - p3.y)

\* some link with neither a nor b as an endpoint meets the segment a-b
CrossedByUnrelatedLink(a, b) ==
  \E i \in DOMAIN links :
     /\ links[i].a \notin {a, b}
     /\ links[i].b \notin {a, b}
     /\ ParametricMeet(Deref(nodes, a), Deref(nodes, b),
                       Deref(nodes, links[i].a), Deref(nodes, links[i].b))

Asks(a, b) == wouldLinkCross(nodes, links, NodePoint(nodes, a), NodePoint(nodes, b))

C9_CrossingCheckExact ==
  \A a \in NodeIds(nodes), b \in NodeIds(nodes) :
     Asks(a, b) <=> CrossedByUnrelatedLink(a, b)

\* a scene with two links where the proposed segment crosses a link it
\* shares no endpoint with, and another proposed segment is crossed only by
\* a link that shares an endpoint with it
C9_Witness ==
  /\ Len(links) = 2
  /\ \E a \in NodeIds(nodes), b \in NodeIds(nodes) : Asks(a, b)
  /\ \E a \in NodeIds(nodes), b \in NodeIds(nodes) :
        /\ ~Asks(a, b)
        /\ \E i \in DOMAIN links :
              /\ {links[i].a, links[i].b} \cap {a, b} # {}
              /\ ParametricMeet(Deref(nodes, a), Deref(nodes, b),
                                Deref(nodes, links[i].a), Deref(nodes, links[i].b))

\* the pass that step() runs in position i
ExpectedPass(i) ==
  IF i = 1 THEN "applyForce"
  ELSE IF i = 2 THEN "integrate"
  ELSE CASE (i - 3) % 6 = 0 -> "_applyWallBounds"
         [] (i - 3) % 6 = 1 -> "_applyGroundCollision"
         [] (i - 3) % 6 = 2 -> "_preventLinkCrossings"
         [] (i - 3) % 6 = 3 -> "Link.satisfy"
         [] (i - 3) % 6 = 4 -> "AngleConstraint.satisfy"
         [] (i - 3) % 6 = 5 -> "_preventLinkCrossings"

\* C10: a step() applies gravity, integrates, then runs the solver loop
\* exactly solverIterations times, each iteration in the order wall bounds,
\* ground collision, crossing prevention, links, angle constraints,
\* crossing prevention.
C10_StepOrder ==
  lastOp.op = "step" =>
     /\ Len(phaseLog) = 2 + 6 * mesh.solverIterations
     /\ \A i \in DOMAIN phaseLog : phaseLog[i] = ExpectedPass(i)

\* a step of a mesh configured with 2 solver iterations that has a link and
\* an angle constraint
C10_Witness ==
  /\ lastOp.op = "step"
  /\ mesh.solverIterations = 2
  /\ links # <<>>
  /\ angleConstraints # <<>>

\* the velocity component vOut is vIn reflected with the factor
\* -wallRestitution, to the nearest grid unit
Reflected(vIn, vOut) ==
  /\ vIn < 0 => vOut >= 0
  /\ vIn > 0 => vOut <= 0
  /\ Abs(Abs(vOut) * 1000 - Abs(vIn) * mesh.wallRestitution) <= 1000

\* C11: when _applyWallBounds clamps a free node at the left, right or top
\* wall, the velocity component normal to that wall (coordinate minus
\* previous coordinate) is afterwards -wallRestitution times the component
\* the node had going into the wall.
C11_WallReflectsVelocity ==
  [][lastOp'.op = "_applyWallBounds" =>
       LET n == nodes[lastOp'.arg]
           after == nodes'[lastOp'.arg]
           right == mesh.bounds.width - n.r
       IN ~n.pinned =>
            /\ (n.x < n.r /\ n.r <= right /\ n.x - n.px < 0)
                  => Reflected(n.x - n.px, after.x - after.px)
            /\ (n.x > right /\ n.x >= n.r /\ n.x - n.px > 0)
                  => Reflected(n.x - n.px, after.x - after.px)
            /\ (n.y < n.r /\ n.y - n.py < 0)
                  => Reflected(n.y - n.py, after.y - after.py)]_vars

\* C12 as stated: after _applyWallBounds on a free node, r <= x <=
\* bounds.width - r and y >= r, whatever the position, the radius and the
\* bounds were.
C12_WallClampsIntoWorld ==
  [][lastOp'.op = "_applyWallBounds" =>
       LET after == nodes'[lastOp'.arg]
       IN ~after.pinned =>
            /\ after.r <= after.x
            /\ after.x <= mesh.bounds.width - after.r
            /\ after.y >= after.r]_vars

\* C12: after _applyWallBounds on a free node, x <= bounds.width - r and
\* y >= r; and r <= x whenever the world is at least as wide as the node
\* (bounds.width >= 2r). In a narrower world x = bounds.width - r.
C12_WallClampsWhereItCan ==
  [][lastOp'.op = "_applyWallBounds" =>
       LET after == nodes'[lastOp'.arg]
           right == mesh.bounds.width - after.r
       IN ~after.pinned =>
            /\ after.x <= right
            /\ after.y >= after.r
            /\ right >= after.r => after.r <= after.x
            /\ right < after.r => after.x = right]_vars

\* a free node clamped in a world that setBounds made narrower than the node
C12_Witness ==
  /\ lastOp.op = "_applyWallBounds"
  /\ ~nodes[lastOp.arg].pinned
  /\ mesh.bounds.width < 2 * nodes[lastOp.arg].r
  /\ nodes[lastOp.arg].x = mesh.bounds.width - nodes[lastOp.arg].r
  /\ nodes[lastOp.arg].y = nodes[lastOp.arg].r

\* two seconds of steps at dt = 1/60
ScenarioSteps == 2 * DefaultDtInv

\* a quarter of a world unit
GroundTolerance == Sub \div 4

\* C13: a triangle of three free nodes dropped under gravity (0,175) with 6
\* solver iterations onto the ground at y = 500 has, after 120 calls of
\* step(1/60), every node at y <= groundY - radius + epsilon: no node is left
\* below its rest on the ground by more than a quarter of a world unit.
C13_TriangleRestsOnGround ==
  (lastOp.op = "step" /\ ticks >= ScenarioSteps) =>
     \A i \in 1..Len(nodes) :
        nodes[i].y <= mesh.groundY - nodes[i].r + GroundTolerance

\* 120 steps have run and the triangle has landed: its two bottom nodes
\* lie on the ground
C13_Witness ==
  /\ lastOp.op = "step"
  /\ ticks = ScenarioSteps
  /\ Len(nodes) = 3
  /\ \A i \in 1..Len(nodes) : ~nodes[i].pinned
  /\ Cardinality({i \in 1..Len(nodes) :
                    nodes[i].y = mesh.groundY - nodes[i].r}) = 2

\* the squared distance of the node `id` to the queried point
QueriedDistance(id) ==
  DistanceSquared(Deref(nodes, id), lastOp'.arg.x, lastOp'.arg.y)

\* C14: getNearestNodes(x, y, k), k >= 0, returns min(k, number of nodes)
\* distinct nodes of the mesh, in order of non-decreasing squared distance to
\* (x, y) with equal distances in the nodes' stored order; every returned node
\* is at least as near as every node not returned; and the mesh's nodes are
\* as they were before the call.
C14_NearestNodes ==
  [][lastOp'.op = "getNearestNodes" =>
       LET r == lastOp'.arg.result
       IN /\ nodes' = nodes
          /\ Len(r) = Min(lastOp'.arg.count, Len(nodes))
          /\ \A i \in DOMAIN r : r[i] \in NodeIds(nodes)
          /\ \A i, j \in DOMAIN r : i # j => r[i] # r[j]
          /\ \A i, j \in DOMAIN r :
                i < j => \/ QueriedDistance(r[i]) < QueriedDistance(r[j])
                         \/ /\ QueriedDistance(r[i]) = QueriedDistance(r[j])
                            /\ IndexOf(nodes, r[i]) < IndexOf(nodes, r[j])
          /\ \A i \in DOMAIN r :
                \A id \in NodeIds(nodes) \ {r[k] : k \in DOMAIN r} :
                   QueriedDistance(r[i]) <= QueriedDistance(id)]_vars

\* three nodes equally far from the queried point, the two nearest asked for
C14_Witness ==
  /\ lastOp.op = "getNearestNodes"
  /\ Len(nodes) = 3
  /\ lastOp.arg.count = 2
  /\ Len(lastOp.arg.result) = 2
  /\ \A i \in DOMAIN nodes :
        DistanceSquared(nodes[i], lastOp.arg.x, lastOp.arg.y) = 2

\* the link a Link.satisfy call was made on
SatisfiedLink == links[lastOp'.arg]

\* the separation of a link's endpoints
Separation(ns, l) ==
  Hypot(Deref(ns, l.b).x - Deref(ns, l.a).x, Deref(ns, l.b).y - Deref(ns, l.a).y)

\* a Link.satisfy call on a link with both endpoints free and stiffness in
\* (0,1], whose correction 0.5 * stiffness * (d - rest) of each endpoint is
\* at least one grid unit, so that d differs from the rest length
LinkCase ==
  /\ lastOp'.op = "Link.satisfy"
  /\ ~Deref(nodes, SatisfiedLink.a).pinned
  /\ ~Deref(nodes, SatisfiedLink.b).pinned
  /\ SatisfiedLink.stiffness > 0 /\ SatisfiedLink.stiffness <= 1000
  /\ SatisfiedLink.stiffness
        * Abs(Separation(nodes, SatisfiedLink) - SatisfiedLink.rest) >= 2000

\* the separation has come strictly closer to the rest length and the
\* midpoint of the endpoints is where it was
LinkCloser ==
  /\ Abs(Separation(nodes', SatisfiedLink) - SatisfiedLink.rest)
       < Abs(Separation(nodes, SatisfiedLink) - SatisfiedLink.rest)
  /\ Deref(nodes', SatisfiedLink.a).x + Deref(nodes', SatisfiedLink.b).x
       = Deref(nodes, SatisfiedLink.a).x + Deref(nodes, SatisfiedLink.b).x
  /\ Deref(nodes', SatisfiedLink.a).y + Deref(nodes', SatisfiedLink.b).y
       = Deref(nodes, SatisfiedLink.a).y + Deref(nodes, SatisfiedLink.b).y

\* C15 as stated: for a link with two free endpoints and stiffness in (0,1],
\* one satisfy() call from a separation d different from the rest length
\* gives a separation strictly closer to the rest length, and leaves the
\* midpoint of the endpoints unchanged.
C15_LinkMovesCloser == [][LinkCase => LinkCloser]_vars

\* C15, amended: the same for a separation d > 0 different from the rest
\* length; coincident endpoints (d = 0) are left where they are.
C15_LinkMovesCloserWhenApart ==
  [][LinkCase /\ Separation(nodes, SatisfiedLink) > 0 => LinkCloser]_vars

\* Scenario B after the first satisfy() call: rest 100, stiffness 1.0, the
\* endpoints started 200 apart and are now 100 apart
C15_Witness ==
  /\ lastOp.op = "Link.satisfy"
  /\ ticks = 1
  /\ Len(nodes) = 2 /\ ~nodes[1].pinned /\ ~nodes[2].pinned
  /\ links[1].rest = 100 * Sub
  /\ links[1].stiffness = 1000
  /\ nodes[1].px = 100 * Sub /\ nodes[2].px = 300 * Sub
  /\ Separation(nodes, links[1]) = 100 * Sub

\* the constraint an AngleConstraint.satisfy call was made on
SatisfiedAngle == angleConstraints[lastOp'.arg.index]

\* the call handled in lastOp' is Link.satisfy on a link with one endpoint
\* pinned and a correction of at least one grid unit
OnePinnedLinkCase ==
  /\ lastOp'.op = "Link.satisfy"
  /\ Deref(nodes, SatisfiedLink.a).pinned # Deref(nodes, SatisfiedLink.b).pinned
  /\ Separation(nodes, SatisfiedLink) > 0
  /\ SatisfiedLink.stiffness
        * Abs(Separation(nodes, SatisfiedLink) - SatisfiedLink.rest) >= 2000

\* C16: AngleConstraint.satisfy() never changes the centre node; it changes
\* no node at all when an outer node is pinned, and otherwise only the
\* positions of the two outer nodes. Link.satisfy() with one endpoint pinned
\* still moves the free endpoint.
C16_AngleConstraintFrame ==
  [][/\ lastOp'.op = "AngleConstraint.satisfy" =>
          /\ Deref(nodes', SatisfiedAngle.b) = Deref(nodes, SatisfiedAngle.b)
          /\ (Deref(nodes, SatisfiedAngle.a).pinned
                 \/ Deref(nodes, SatisfiedAngle.c).pinned) => nodes' = nodes
          /\ Len(nodes') = Len(nodes)
          /\ \A i \in DOMAIN nodes :
                /\ nodes[i].id \notin {SatisfiedAngle.a, SatisfiedAngle.c}
                     => nodes'[i] = nodes[i]
                /\ nodes'[i] = [nodes[i] EXCEPT !.x = nodes'[i].x, !.y = nodes'[i].y]
     /\ OnePinnedLinkCase =>
          \E i \in DOMAIN nodes :
             /\ nodes[i].id \in {SatisfiedLink.a, SatisfiedLink.b}
             /\ ~nodes[i].pinned
             /\ <<nodes'[i].x, nodes'[i].y>> # <<nodes[i].x, nodes[i].y>>]_vars

\* a satisfy() call on a stretched constraint with one outer node pinned and
\* the other free has moved nothing
C16_Witness ==
  /\ lastOp.op = "AngleConstraint.satisfy"
  /\ ~lastOp.arg.moved
  /\ Deref(nodes, angleConstraints[lastOp.arg.index].a).pinned
  /\ ~Deref(nodes, angleConstraints[lastOp.arg.index].c).pinned
  /\ Separation(nodes, [a |-> 1, b |-> 3]) # angleConstraints[lastOp.arg.index].restDistance

\* the value in use is the supplied one, or the default when none is supplied
SuppliedOr(opt, default, used) ==
  IF opt = {} THEN used = default ELSE opt = {used}

\* C17: every configuration parameter of the constructor and the stiffness
\* option of createLink take the caller's value whenever one is supplied,
\* 0 included, and the default only when the parameter is omitted.
C17_SuppliedValuesAreUsed ==
  LET c == lastOp.arg.config
  IN /\ SuppliedOr(c.damping, DefaultDamping, mesh.damping)
     /\ SuppliedOr(c.solverIterations, DefaultSolverIterations, mesh.solverIterations)
     /\ SuppliedOr(c.stiffness, DefaultStiffness, mesh.stiffness)
     /\ SuppliedOr(c.wallRestitution, DefaultWallRestitution, mesh.wallRestitution)
     /\ SuppliedOr(c.groundRestitution, DefaultGroundRestitution, mesh.groundRestitution)
     /\ SuppliedOr(c.friction, DefaultFriction, mesh.friction)
     /\ SuppliedOr(c.groundY, mesh.bounds.height - GroundMargin * Sub, mesh.groundY)
     /\ SuppliedOr(c.defaultNodeRadius, DefaultNodeRadius * Sub, mesh.defaultNodeRadius)
     /\ SuppliedOr(c.defaultNodeMass, DefaultNodeMass, mesh.defaultNodeMass)
     /\ lastOp.op = "createLink" =>
          \A s \in lastOp.arg.options :
             SuppliedOr(s, mesh.stiffness, links[Len(links)].stiffness)

\* two node references whose nodes are at the same position
Coincident(ns, a, b) ==
  /\ Deref(ns, a).x = Deref(ns, b).x
  /\ Deref(ns, a).y = Deref(ns, b).y

AllFinite(ns) ==
  \A i \in DOMAIN ns :
     {ns[i].x, ns[i].y, ns[i].px, ns[i].py} \cap {NotFinite} = {}

\* some two nodes of the mesh are at the same position
SomeCoincident(ns) ==
  \E i, j \in DOMAIN ns : i < j /\ Coincident(ns, ns[i].id, ns[j].id)

\* C18: Link.satisfy on coincident endpoints, AngleConstraint.satisfy on
\* coincident outer nodes and the crossing-prevention push of a node from its
\* own position leave every node where it is, and a step() of a mesh with
\* coincident nodes, Node.integrate included, leaves every coordinate finite.
C18_CoincidentStaysFinite ==
  [][/\ (lastOp'.op = "Link.satisfy"
          /\ Coincident(nodes, SatisfiedLink.a, SatisfiedLink.b))
         => nodes' = nodes /\ AllFinite(nodes')
     /\ (lastOp'.op = "AngleConstraint.satisfy"
          /\ Coincident(nodes, SatisfiedAngle.a, SatisfiedAngle.c))
         => nodes' = nodes /\ AllFinite(nodes')
     /\ lastOp'.op = "_pushNodeFromPoint"
         => nodes' = nodes /\ AllFinite(nodes')
     /\ (lastOp'.op = "step" /\ ticks' = ticks + 1 /\ SomeCoincident(nodes))
         => AllFinite(nodes')]_vars

\* Link.satisfy was called on a link of rest length > 0 whose free endpoints
\* one step() had brought to the same place
C18_Witness ==
  /\ lastOp.op = "Link.satisfy"
  /\ ticks = 2
  /\ links[lastOp.arg].rest > 0
  /\ ~Deref(nodes, links[lastOp.arg].a).pinned
  /\ ~Deref(nodes, links[lastOp.arg].b).pinned
  /\ Coincident(nodes, links[lastOp.arg].a, links[lastOp.arg].b)

\* where two links intersect, by the program's own segment test
Intersection(ns, l1, l2) ==
  lineIntersection(Deref(ns, l1.a).x, Deref(ns, l1.a).y,
                   Deref(ns, l1.b).x, Deref(ns, l1.b).y,
                   Deref(ns, l2.a).x, Deref(ns, l2.a).y,
                   Deref(ns, l2.b).x, Deref(ns, l2.b).y)

\* two links that share no endpoint and intersect farther than
\* defaultNodeRadius from all four endpoints
PushedApart(ns, l1, l2) ==
  /\ {l1.a, l1.b} \cap {l2.a, l2.b} = {}
  /\ Intersection(ns, l1, l2).hit
  /\ \A id \in {l1.a, l1.b, l2.a, l2.b} :
        Hypot(Deref(ns, id).x - Intersection(ns, l1, l2).x,
              Deref(ns, id).y - Intersection(ns, l1, l2).y) > mesh.defaultNodeRadius

PushedPairs(ns) ==
  {p \in (DOMAIN links) \X (DOMAIN links) :
     p[1] < p[2] /\ PushedApart(ns, links[p[1]], links[p[2]])}

\* n2 is n moved by 0.3 world units along the line from (ix, iy) through n,
\* each component to within one grid unit
MovedAway(n, n2, ix, iy) ==
  LET dist == Hypot(n.x - ix, n.y - iy)
  IN /\ Abs((n2.x - n.x) * dist * 1000 - (n.x - ix) * PushStrength * Sub)
          <= dist * 1000
     /\ Abs((n2.y - n.y) * dist * 1000 - (n.y - iy) * PushStrength * Sub)
          <= dist * 1000
     /\ <<n2.x, n2.y>> # <<n.x, n.y>>

\* C19: a crossing-prevention pass changes nothing of a node but x and y; it
\* moves a node only if the node is not pinned and is an endpoint of one of
\* two links that share no endpoint and intersect farther than
\* defaultNodeRadius from their four endpoints; every non-pinned endpoint of
\* such a pair is moved by 0.3 directly away from the intersection point.
C19_CrossingPush ==
  [][lastOp'.op = "_preventLinkCrossings" =>
       /\ Len(nodes') = Len(nodes)
       /\ \A k \in DOMAIN nodes :
             /\ nodes'[k] = [nodes[k] EXCEPT !.x = nodes'[k].x, !.y = nodes'[k].y]
             /\ <<nodes'[k].x, nodes'[k].y>> # <<nodes[k].x, nodes[k].y>> =>
                   /\ ~nodes[k].pinned
                   /\ \E p \in PushedPairs(nodes) :
                         nodes[k].id \in {links[p[1]].a, links[p[1]].b,
                                          links[p[2]].a, links[p[2]].b}
             /\ \A p \in PushedPairs(nodes) :
                   (/\ ~nodes[k].pinned
                    /\ nodes[k].id \in {links[p[1]].a, links[p[1]].b,
                                         links[p[2]].a, links[p[2]].b}) =>
                      MovedAway(nodes[k], nodes'[k],
                                Intersection(nodes, links[p[1]], links[p[2]]).x,
                                Intersection(nodes, links[p[1]], links[p[2]]).y)]_vars

\* links 1-2 and 3-4 crossed in the middle: the pass has pushed the free
\* node 1 away from the crossing and left the pinned node 2 in place
C19_Witness ==
  /\ lastOp.op = "_preventLinkCrossings"
  /\ Len(nodes) = 4
  /\ ~nodes[1].pinned /\ nodes[1].px = 100 * Sub /\ nodes[1].x < 100 * Sub
  /\ nodes[1].y < 100 * Sub
  /\ nodes[2].pinned /\ nodes[2].x = 140 * Sub /\ nodes[2].y = 140 * Sub

\* the nodes whose radius the pointer position lies in
UnderPointer ==
  {nodes[i].id : i \in {k \in DOMAIN nodes :
      DistanceSquared(nodes[k], mouse.x, mouse.y) <= nodes[k].r * nodes[k].r}}

\* C20: in the driver, whatever pointer moves, clicks and ticks came before,
\* a click handled while the pointer lies inside the radius of a node of the
\* mesh calls removeNode on a node under the pointer and adds no node and no
\* link, and a click handled while the pointer is over no node removes none.
C20_ClickActsOnNodeUnderPointer ==
  [][lastOp'.op \in {"removeNode", "addNode"} =>
       /\ UnderPointer # {} =>
             /\ lastOp'.op = "removeNode"
             /\ hoveredNode \in UnderPointer
             /\ NodeIds(nodes') \subseteq NodeIds(nodes)
             /\ Len(links') <= Len(links)
       /\ UnderPointer = {} =>
             /\ lastOp'.op # "removeNode"
             /\ NodeIds(nodes) \subseteq NodeIds(nodes')]_vars

\* C21: removeNode terminates on every finite mesh, with duplicate links,
\* self-links and cycles: a call that has started returns, every recursive
\* call either removes a node still present or finds no links and returns
\* without recursing, and a call that returns leaves the mesh as removeNode
\* as a whole leaves it.
C21_RemoveNodeTerminates ==
  /\ (phaseLog # <<>>) ~> (phaseLog = <<>>)
  /\ []((lastOp.op = "removeNode" /\ lastOp.arg.recursive) =>
           (lastOp.arg.present \/ ~lastOp.arg.linked))
  /\ [][lastOp'.op = "return" =>
           /\ phaseLog[Len(phaseLog)].result.nodes = nodes'
           /\ phaseLog[Len(phaseLog)].result.links = links'
           /\ phaseLog[Len(phaseLog)].result.angleConstraints = angleConstraints']_vars

\* removeNode has called itself on a node that an earlier call had removed,
\* a neighbour collected twice or the node of a self-link: the call found no
\* links
C21_Witness ==
  /\ lastOp.op = "removeNode"
  /\ lastOp.arg.recursive
  /\ ~lastOp.arg.present
  /\ ~lastOp.arg.linked
  /\ Len(phaseLog) >= 2
  /\ phaseLog[Len(phaseLog)].connectedNodes = <<>>

\* C22: in the driver, from the initial triangle, the mesh never has 1 or 2
\* nodes, and a mesh with no nodes stays without nodes whatever clicks,
\* pointer moves, ticks and resizes follow.
C22_NeverOneOrTwoAndEmptyForever ==
  /\ [](Len(nodes) \notin {1, 2})
  /\ [][nodes = <<>> => nodes' = <<>>]_vars

\* a click in add mode was handled in the empty mesh, and ignored
C22_Witness ==
  /\ lastOp.op = "addNode"
  /\ lastOp.nodesBefore = 0
  /\ nodes = <<>>
  /\ links = <<>>

====
